---- MODULE Spec2Model ----
(***************************************************************************)
(* Kismet Linux Wi-Fi capture helper (capture_linux_wifi.c).               *)
(*                                                                         *)
(* The model follows the helper's process: main() builds the              *)
(* InterfaceState (local_wifi_t) and registers the callbacks, the capture  *)
(* framework's event loop then invokes open_callback once and              *)
(* chancontrol_callback on hop ticks and configure commands, and the       *)
(* capture thread runs pcap_loop / pcap_dispatch_cb beside it.             *)
(*                                                                         *)
(* Strings are sequences of one-character strings, so that formatting      *)
(* ("%u", "%uHT40+", ...) is computed and not assumed.                     *)
(***************************************************************************)
EXTENDS Integers, Sequences, FiniteSets, TLC

(***************************************************************************)
(* Bounds of the model.                                                    *)
(***************************************************************************)
\* longest run of consecutive failed hop-context channel sets explored
MaxRun == 11
\* packets the capture library delivers
MaxPackets == 2
\* fatal returns of cf_send_data explored
MaxSendErrors == 2
\* largest sequence number of a configure command
MaxSeqno == 1
\* the same three, where a specification explores another part in depth
MinRun == 1
MinPackets == 1
MinSendErrors == 1

(***************************************************************************)
(* Program constants.                                                      *)
(***************************************************************************)
\* enum nl80211_channel_type, as used at lines 240, 257, 388, 390
NL80211_CHAN_NO_HT == 0
NL80211_CHAN_HT40MINUS == 2
NL80211_CHAN_HT40PLUS == 3
\* enum nl80211_chan_width, as used at lines 308..341 and 395..409
NL80211_CHAN_WIDTH_20_NOHT == 0
NL80211_CHAN_WIDTH_80 == 3
NL80211_CHAN_WIDTH_160 == 5
NL80211_CHAN_WIDTH_5 == 6
NL80211_CHAN_WIDTH_10 == 7
\* the number of sequential channel-set errors tolerated while hopping
MaxSeqChannelFailure == 10

NULL == "NULL"

(***************************************************************************)
(* local_channel_t and its rendering.                                      *)
(***************************************************************************)
local_channel_t(cf, ct, cw, uc, c1, c2) ==
    [control_freq |-> cf, chan_type |-> ct, chan_width |-> cw,
     unusual_center1 |-> uc, center_freq1 |-> c1, center_freq2 |-> c2]

Digit(d) == CASE d = 0 -> "0" [] d = 1 -> "1" [] d = 2 -> "2" [] d = 3 -> "3"
              [] d = 4 -> "4" [] d = 5 -> "5" [] d = 6 -> "6" [] d = 7 -> "7"
              [] d = 8 -> "8" [] d = 9 -> "9"

RECURSIVE FormatUnsigned(_)
\* printf("%u", n)
FormatUnsigned(n) ==
    IF n < 10 THEN <<Digit(n)>>
    ELSE FormatUnsigned(n \div 10) \o <<Digit(n % 10)>>

\* Mutant: the explicit center of a VHT channel is not rendered.
local_channel_to_str_NoExplicitCenter(chan) ==
    IF chan.chan_type = 0 /\ chan.chan_width = 0
    THEN FormatUnsigned(chan.control_freq)
    ELSE IF chan.chan_type = NL80211_CHAN_HT40MINUS
    THEN FormatUnsigned(chan.control_freq) \o <<"H", "T", "4", "0", "-">>
    ELSE IF chan.chan_type = NL80211_CHAN_HT40PLUS
    THEN FormatUnsigned(chan.control_freq) \o <<"H", "T", "4", "0", "+">>
    ELSE CASE chan.chan_width = NL80211_CHAN_WIDTH_5 ->
                FormatUnsigned(chan.control_freq) \o <<"W", "5">>
           [] chan.chan_width = NL80211_CHAN_WIDTH_10 ->
                FormatUnsigned(chan.control_freq) \o <<"W", "1", "0">>
           [] chan.chan_width = NL80211_CHAN_WIDTH_80 ->
                FormatUnsigned(chan.control_freq) \o <<"V", "H", "T", "8", "0">>
           [] chan.chan_width = NL80211_CHAN_WIDTH_160 ->
                FormatUnsigned(chan.control_freq) \o <<"V", "H", "T", "1", "6", "0">>
           [] OTHER -> FormatUnsigned(chan.control_freq)

local_channel_to_str(chan) ==
    IF chan.chan_type = 0 /\ chan.chan_width = 0
    THEN FormatUnsigned(chan.control_freq)
    ELSE IF chan.chan_type = NL80211_CHAN_HT40MINUS
    THEN FormatUnsigned(chan.control_freq) \o <<"H", "T", "4", "0", "-">>
    ELSE IF chan.chan_type = NL80211_CHAN_HT40PLUS
    THEN FormatUnsigned(chan.control_freq) \o <<"H", "T", "4", "0", "+">>
    ELSE CASE chan.chan_width = NL80211_CHAN_WIDTH_5 ->
                FormatUnsigned(chan.control_freq) \o <<"W", "5">>
           [] chan.chan_width = NL80211_CHAN_WIDTH_10 ->
                FormatUnsigned(chan.control_freq) \o <<"W", "1", "0">>
           [] chan.chan_width = NL80211_CHAN_WIDTH_80 ->
                IF chan.unusual_center1 # 0
                THEN FormatUnsigned(chan.control_freq) \o <<"V", "H", "T", "8", "0", "-">>
                       \o FormatUnsigned(chan.center_freq1)
                ELSE FormatUnsigned(chan.control_freq) \o <<"V", "H", "T", "8", "0">>
           [] chan.chan_width = NL80211_CHAN_WIDTH_160 ->
                IF chan.unusual_center1 # 0
                THEN FormatUnsigned(chan.control_freq) \o <<"V", "H", "T", "1", "6", "0", "-">>
                       \o FormatUnsigned(chan.center_freq1)
                ELSE FormatUnsigned(chan.control_freq) \o <<"V", "H", "T", "1", "6", "0">>
           [] OTHER -> FormatUnsigned(chan.control_freq)

(***************************************************************************)
(* The HT channel table (wifi_ht_channels.h) and chantranslate_callback.   *)
(*                                                                         *)
(* A channel string is a sequence of characters without white space or     *)
(* sign; sscanf is modelled on such strings by what it reads.              *)
(***************************************************************************)
\* wifi_ht_channels: four rows of the table (a 2.4GHz channel with both HT40
\* flags, channel 36, a channel with an 80MHz but no 160MHz center, and a
\* 20MHz-only channel)
wifi_ht_channels ==
    << [chan |-> 6, freq |-> 2437, flags |-> {"HT40MINUS", "HT40PLUS"},
        freq80 |-> 0, freq160 |-> 0],
       [chan |-> 36, freq |-> 5180, flags |-> {"HT40PLUS", "HT80", "HT160"},
        freq80 |-> 5210, freq160 |-> 5250],
       [chan |-> 149, freq |-> 5745, flags |-> {"HT40PLUS", "HT80"},
        freq80 |-> 5775, freq160 |-> 0],
       [chan |-> 165, freq |-> 5825, flags |-> {},
        freq80 |-> 0, freq160 |-> 0] >>

\* the number of rows, which both loop bounds stand for
MAX_WIFI_HT_CHANNEL == Len(wifi_ht_channels)

IsDigit(ch) == ch \in {"0", "1", "2", "3", "4", "5", "6", "7", "8", "9"}
DigitValue(ch) == CHOOSE d \in 0..9 : Digit(d) = ch

RECURSIVE DigitsLen(_)
\* the length of the longest prefix of digits
DigitsLen(str) ==
    IF str = <<>> \/ ~IsDigit(Head(str)) THEN 0 ELSE 1 + DigitsLen(Tail(str))

RECURSIVE DigitsValue(_)
\* the value of a string of digits
DigitsValue(str) ==
    IF str = <<>> THEN 0
    ELSE 10 * DigitsValue(SubSeq(str, 1, Len(str) - 1)) + DigitValue(str[Len(str)])

\* sscanf's %u at the head of str: [n: characters read (0: no conversion),
\* value, rest]
ScanUnsigned(str) ==
    LET n == DigitsLen(str)
    IN [n |-> n, value |-> DigitsValue(SubSeq(str, 1, n)),
        rest |-> SubSeq(str, n + 1, Len(str))]

\* does str begin with lit
StartsWith(str, lit) ==
    Len(str) >= Len(lit) /\ SubSeq(str, 1, Len(lit)) = lit

\* sscanf(chanstr, "%uHT40%c", &parsechan, &mod)
ScanHT40(chanstr) ==
    LET u == ScanUnsigned(chanstr)
        lit == <<"H", "T", "4", "0">>
    IN IF u.n = 0
       THEN [r |-> IF chanstr = <<>> THEN -1 ELSE 0, parsechan |-> 0, mod |-> ""]
       ELSE IF StartsWith(u.rest, lit) /\ Len(u.rest) > Len(lit)
       THEN [r |-> 2, parsechan |-> u.value, mod |-> u.rest[Len(lit) + 1]]
       ELSE [r |-> 1, parsechan |-> u.value, mod |-> ""]

RECURSIVE NotDashLen(_)
\* the length of the longest prefix without '-'
NotDashLen(str) ==
    IF str = <<>> \/ Head(str) = "-" THEN 0 ELSE 1 + NotDashLen(Tail(str))

\* the field width of parsetype's conversion
ParsetypeWidth == 15

\* sscanf(chanstr, "%u%15[^-]-%u", &parsechan, parsetype, &parse_center1)
ScanTyped(chanstr) ==
    LET u == ScanUnsigned(chanstr)
        run == NotDashLen(u.rest)
        n == IF run > ParsetypeWidth THEN ParsetypeWidth ELSE run
        parsetype == SubSeq(u.rest, 1, n)
        after == SubSeq(u.rest, n + 1, Len(u.rest))
        c == IF after # <<>> /\ Head(after) = "-"
             THEN ScanUnsigned(Tail(after))
             ELSE [n |-> 0, value |-> 0, rest |-> after]
    IN IF u.n = 0
       THEN [r |-> IF chanstr = <<>> THEN -1 ELSE 0, parsechan |-> 0,
             parsetype |-> <<>>, parse_center1 |-> 0]
       ELSE IF n = 0
       THEN [r |-> 1, parsechan |-> u.value, parsetype |-> <<>>, parse_center1 |-> 0]
       ELSE IF c.n = 0
       THEN [r |-> 2, parsechan |-> u.value, parsetype |-> parsetype, parse_center1 |-> 0]
       ELSE [r |-> 3, parsechan |-> u.value, parsetype |-> parsetype,
             parse_center1 |-> c.value]

UpperLetters ==
    <<"A", "B", "C", "D", "E", "F", "G", "H", "I", "J", "K", "L", "M", "N", "O", "P", "Q", "R", "S", "T", "U", "V", "W", "X", "Y", "Z">>
LowerLetters ==
    <<"a", "b", "c", "d", "e", "f", "g", "h", "i", "j", "k", "l", "m", "n", "o", "p", "q", "r", "s", "t", "u", "v", "w", "x", "y", "z">>

tolower(ch) ==
    IF \E i \in 1..Len(UpperLetters) : UpperLetters[i] = ch
    THEN LowerLetters[CHOOSE i \in 1..Len(UpperLetters) : UpperLetters[i] = ch]
    ELSE ch

\* strcasecmp(a, b) == 0
strcasecmp_eq(a, b) ==
    /\ Len(a) = Len(b)
    /\ \A i \in 1..Len(a) : tolower(a[i]) = tolower(b[i])

InfoMessage == [flag |-> "INFO"]
ErrorMessage == [flag |-> "ERROR"]

RECURSIVE HT40Search(_, _, _)
\* the loop over the table of the HT40- / HT40+ branch, from row ci: the
\* messages it sends
HT40Search(ci, parsechan, flag) ==
    IF ci > MAX_WIFI_HT_CHANNEL THEN <<>>
    ELSE LET row == wifi_ht_channels[ci]
             here == IF (row.chan = parsechan \/ row.freq = parsechan)
                        /\ flag \notin row.flags
                     THEN <<InfoMessage>> ELSE <<>>
         IN here \o HT40Search(ci + 1, parsechan, flag)

RECURSIVE VHTSearch(_, _, _, _)
\* the loop over the table of the vht80 / vht160 branch, from row ci, with
\* the descriptor so far: the descriptor returned (<<>> for NULL) and the
\* messages
VHTSearch(ci, parsechan, flag, chan) ==
    IF ci > MAX_WIFI_HT_CHANNEL THEN [chan |-> <<chan>>, messages |-> <<>>]
    ELSE LET row == wifi_ht_channels[ci] IN
         IF row.chan = parsechan \/ row.freq = parsechan
         THEN IF flag \notin row.flags
              THEN [chan |-> <<>>, messages |-> <<ErrorMessage>>]
              ELSE VHTSearch(ci + 1, parsechan, flag,
                             [chan EXCEPT !.control_freq = row.freq,
                                          !.center_freq1 = IF flag = "HT80" THEN row.freq80
                                                           ELSE row.freq160])
         ELSE VHTSearch(ci + 1, parsechan, flag, chan)

\* the branch of chantranslate_callback for a width: vht80 or vht160
VHTChannel(t, width, flag) ==
    LET chan == local_channel_t(t.parsechan, 0, width, 0, 0, 0)
    IN IF t.r = 3
       THEN [chan |-> <<[chan EXCEPT !.center_freq1 = t.parse_center1,
                                     !.unusual_center1 = 1]>>,
             messages |-> <<>>]
       ELSE VHTSearch(1, t.parsechan, flag, chan)

\* chantranslate_callback: [chan: <<>> for NULL or <<descriptor>>, messages:
\* the cf_send_message calls]
chantranslate_callback(chanstr) ==
    LET h == ScanHT40(chanstr)
        t == ScanTyped(chanstr)
    IN IF h.r = 2
       THEN IF h.mod = "-"
            THEN [chan |-> <<local_channel_t(h.parsechan, NL80211_CHAN_HT40MINUS, 0, 0, 0, 0)>>,
                  messages |-> HT40Search(1, h.parsechan, "HT40MINUS")]
            ELSE IF h.mod = "+"
            THEN [chan |-> <<local_channel_t(h.parsechan, NL80211_CHAN_HT40PLUS, 0, 0, 0, 0)>>,
                  messages |-> HT40Search(1, h.parsechan, "HT40PLUS")]
            ELSE [chan |-> <<local_channel_t(h.parsechan, 0, 0, 0, 0, 0)>>,
                  messages |-> <<InfoMessage>>]
       ELSE IF t.r <= 0
       THEN [chan |-> <<>>, messages |-> <<ErrorMessage>>]
       ELSE IF t.r = 1
       THEN [chan |-> <<local_channel_t(t.parsechan, 0, 0, 0, 0, 0)>>, messages |-> <<>>]
       ELSE IF strcasecmp_eq(t.parsetype, <<"w", "5">>)
       THEN [chan |-> <<local_channel_t(t.parsechan, 0, NL80211_CHAN_WIDTH_5, 0, 0, 0)>>,
             messages |-> <<>>]
       ELSE IF strcasecmp_eq(t.parsetype, <<"w", "1", "0">>)
       THEN [chan |-> <<local_channel_t(t.parsechan, 0, NL80211_CHAN_WIDTH_10, 0, 0, 0)>>,
             messages |-> <<>>]
       ELSE IF strcasecmp_eq(t.parsetype, <<"v", "h", "t", "8", "0">>)
       THEN VHTChannel(t, NL80211_CHAN_WIDTH_80, "HT80")
       ELSE IF strcasecmp_eq(t.parsetype, <<"v", "h", "t", "1", "6", "0">>)
       THEN VHTChannel(t, NL80211_CHAN_WIDTH_160, "HT160")
       ELSE [chan |-> <<local_channel_t(t.parsechan, 0, 0, 0, 0, 0)>>,
             messages |-> <<InfoMessage>>]

\* The channel strings the server sends: a number (or none), a suffix in
\* either case (or none, or one the grammar does not know), and an explicit
\* center (or none).
\* 1000 is neither a channel nor a frequency of the table
ParseNumbers == {36, 149, 1000, 5180}
ParseSuffixes ==
    { <<>>,
      <<"H", "T", "4", "0", "+">>,
      <<"H", "T", "4", "0", "-">>,
      <<"h", "t", "4", "0", "+">>,
      <<"h", "t", "4", "0", "-">>,
      <<"H", "T", "4", "0", "x">>,
      <<"W", "5">>,
      <<"w", "5">>,
      <<"W", "1", "0">>,
      <<"V", "H", "T", "8", "0">>,
      <<"v", "h", "t", "8", "0">>,
      <<"V", "H", "T", "1", "6", "0">>,
      <<"v", "H", "t", "1", "6", "0">>,
      <<"f", "o", "o">> }
ParseCenters ==
    { <<>>, <<"-", "0">>, <<"-", "5", "2", "1", "0">> }
\* (none begins with a sign, which "%u" would read as part of the number)
ChannelStrings ==
    { s \in { n \o x \o c : n \in {<<>>} \cup { FormatUnsigned(k) : k \in ParseNumbers },
                             x \in ParseSuffixes, c \in ParseCenters } :
        s = <<>> \/ Head(s) # "-" }

\* The descriptors the framework hands to the channel controller: a bare
\* channel, an HT40+ channel and a table-derived VHT80 channel.
BareChannel == local_channel_t(6, 0, 0, 0, 0, 0)
HopChannels ==
    { BareChannel,
      local_channel_t(36, NL80211_CHAN_HT40PLUS, 0, 0, 0, 0),
      local_channel_t(5180, 0, NL80211_CHAN_WIDTH_80, 0, 5210, 0) }

(***************************************************************************)
(* Channel controller: chancontrol_callback.                               *)
(*                                                                         *)
(* A call yields [ret, lw, messages, errors, configresp, ops]: the return  *)
(* value, the InterfaceState afterwards, the cf_send_message diagnostics,  *)
(* the number of cf_send_error calls, the cf_send_configresp_channel calls *)
(* and the backend operations it made.  r is the backend's result (r < 0:  *)
(* the set failed).                                                        *)
(***************************************************************************)
\* Mutant: the width test is lost, every netlink set goes through set_channel.
ChanBackendOp_NoWidthTest(lw, channel) ==
    IF lw.use_mac80211 = 0
    THEN [fn |-> "iwconfig_set_channel", ifname |-> lw.interface,
          handle |-> NULL, args |-> <<channel.control_freq>>]
    ELSE [fn |-> "mac80211_set_channel_cache", ifname |-> lw.cap_interface,
          handle |-> lw.mac80211_handle,
          args |-> <<channel.control_freq, channel.chan_type>>]

\* the one backend operation a call issues
ChanBackendOp(lw, channel) ==
    IF lw.use_mac80211 = 0
    THEN [fn |-> "iwconfig_set_channel", ifname |-> lw.interface,
          handle |-> NULL, args |-> <<channel.control_freq>>]
    ELSE IF channel.chan_width # 0
    THEN [fn |-> "mac80211_set_frequency_cache", ifname |-> lw.cap_interface,
          handle |-> lw.mac80211_handle,
          args |-> <<channel.control_freq, channel.chan_width,
                     channel.center_freq1, channel.center_freq2>>]
    ELSE [fn |-> "mac80211_set_channel_cache", ifname |-> lw.cap_interface,
          handle |-> lw.mac80211_handle,
          args |-> <<channel.control_freq, channel.chan_type>>]

\* iwconfig_set_channel failed
LegacySetFailure(lw, seqno, channel) ==
    IF lw.seq_channel_failure < MaxSeqChannelFailure /\ seqno = 0
    THEN [ret |-> 0, lw |-> lw,
          messages |-> <<[flag |-> "ERROR", chanstr |-> local_channel_to_str(channel)]>>,
          errors |-> 0, configresp |-> <<>>]
    ELSE [ret |-> -1, lw |-> lw, messages |-> <<>>,
          errors |-> IF seqno = 0 THEN 1 ELSE 0, configresp |-> <<>>]

\* iwconfig_set_channel succeeded
LegacySetSuccess(lw, seqno, channel) ==
    [ret |-> 0, lw |-> [lw EXCEPT !.seq_channel_failure = 0],
     messages |-> <<>>, errors |-> 0,
     configresp |-> IF seqno # 0
                    THEN <<[seqno |-> seqno, success |-> 1,
                            chanstr |-> local_channel_to_str(channel)]>>
                    ELSE <<>>]

\* Mutant: the seqno test is lost, a failed configure is tolerated like a hop.
NlSetFailure_NoSeqnoTest(lw, seqno, channel) ==
    IF lw.seq_channel_failure < MaxSeqChannelFailure
    THEN [ret |-> 0, lw |-> lw,
          messages |-> <<[flag |-> "ERROR", chanstr |-> local_channel_to_str(channel)]>>,
          errors |-> 0, configresp |-> <<>>]
    ELSE [ret |-> -1, lw |-> lw, messages |-> <<>>,
          errors |-> IF seqno = 0 THEN 1 ELSE 0, configresp |-> <<>>]

\* Mutant: the seqno test is inverted, a failed hop is terminal at once.
NlSetFailure_SeqnoInverted(lw, seqno, channel) ==
    IF lw.seq_channel_failure < MaxSeqChannelFailure /\ seqno # 0
    THEN [ret |-> 0, lw |-> lw,
          messages |-> <<[flag |-> "ERROR", chanstr |-> local_channel_to_str(channel)]>>,
          errors |-> 0, configresp |-> <<>>]
    ELSE [ret |-> -1, lw |-> lw, messages |-> <<>>,
          errors |-> IF seqno = 0 THEN 1 ELSE 0, configresp |-> <<>>]

\* Mutant: a failed netlink set switches the channel control to the legacy path.
NlSetFailure_FallsBackToLegacy(lw, seqno, channel) ==
    IF lw.seq_channel_failure < MaxSeqChannelFailure /\ seqno = 0
    THEN [ret |-> 0, lw |-> [lw EXCEPT !.use_mac80211 = 0],
          messages |-> <<[flag |-> "ERROR", chanstr |-> local_channel_to_str(channel)]>>,
          errors |-> 0, configresp |-> <<>>]
    ELSE [ret |-> -1, lw |-> [lw EXCEPT !.use_mac80211 = 0], messages |-> <<>>,
          errors |-> IF seqno = 0 THEN 1 ELSE 0, configresp |-> <<>>]

\* mac80211_set_frequency_cache / mac80211_set_channel_cache failed
NlSetFailure(lw, seqno, channel) ==
    IF lw.seq_channel_failure < MaxSeqChannelFailure /\ seqno = 0
    THEN [ret |-> 0, lw |-> lw,
          messages |-> <<[flag |-> "ERROR", chanstr |-> local_channel_to_str(channel)]>>,
          errors |-> 0, configresp |-> <<>>]
    ELSE [ret |-> -1, lw |-> lw, messages |-> <<>>,
          errors |-> IF seqno = 0 THEN 1 ELSE 0, configresp |-> <<>>]

\* Mutant: the counter is stepped where it should be cleared.
NlSetSuccess_CounterStepped(lw, seqno, channel) ==
    [ret |-> 0, lw |-> [lw EXCEPT !.seq_channel_failure = @ + 1],
     messages |-> <<>>, errors |-> 0, configresp |-> <<>>]

\* mac80211_set_frequency_cache / mac80211_set_channel_cache succeeded
NlSetSuccess(lw, seqno, channel) ==
    [ret |-> 0, lw |-> [lw EXCEPT !.seq_channel_failure = 0],
     messages |-> <<>>, errors |-> 0, configresp |-> <<>>]

\* privchan is a pointer: <<>> is NULL, <<c>> points to the descriptor c
chancontrol_callback(lw, seqno, privchan, r) ==
    IF privchan = <<>>
    THEN [ret |-> 0, lw |-> lw, messages |-> <<>>, errors |-> 0,
          configresp |-> <<>>, ops |-> <<>>]
    ELSE LET channel == privchan[1]
             res == IF lw.use_mac80211 = 0
                    THEN IF r < 0 THEN LegacySetFailure(lw, seqno, channel)
                                  ELSE LegacySetSuccess(lw, seqno, channel)
                    ELSE IF r < 0 THEN NlSetFailure(lw, seqno, channel)
                                  ELSE NlSetSuccess(lw, seqno, channel)
         IN [ret |-> res.ret, lw |-> res.lw, messages |-> res.messages,
             errors |-> res.errors, configresp |-> res.configresp,
             ops |-> <<ChanBackendOp(lw, channel)>>]

(***************************************************************************)
(* State.                                                                  *)
(***************************************************************************)
VARIABLES
    local_wifi,   \* the local_wifi_t of main(), handed to callbacks as userdata
    caph,         \* what main() has set on the kis_capture_handler_t
    mainpc,       \* the main thread's position in main()
    open,         \* the open_callback call: position, locals, out-parameters, and
                  \* what it found (first_mode: the first mode query's answer;
                  \* ifaces, kismon: the system's interfaces at the name choice)
    cap,          \* the capture thread: position in capture_thread/pcap_dispatch_cb,
                  \* the cf_send_error / cf_handler_spindown calls it has made,
                  \* and the fields of local_wifi it has read
    spindown,     \* cf_handler_spindown has been called
    lastCall,     \* the last chancontrol_callback call: inputs and what it did
    run,          \* hop-context channel-set failures since the last successful set
    teardown,     \* what main() did after cf_handler_loop returned
    xlate,        \* the last chantranslate_callback call: input and what it did
    probe         \* the last probe_callback call: input and what it did

vars == <<local_wifi, caph, mainpc, open, cap, spindown, lastCall, run, teardown, xlate,
          probe>>

IFNAMSIZ == 16

\* Interface names in the source definition: none, a short one, one for
\* which strlen + 3 >= IFNAMSIZ, the longest for which strlen + 3 < IFNAMSIZ
\* and the shortest for which strlen + 3 >= IFNAMSIZ.
ShortIf == "wlan0"
LongIf == "wlx00c0ca123456"
FitIf == "wlp0s20f0u12"
EdgeIf == "wlp0s20f0u1u2"
Modes == {"fail", "monitor", "managed"}

\* the pointers chantranslate_callback can have returned
PrivChans == {<<>>} \cup { <<c>> : c \in HopChannels }

(***************************************************************************)
(* What a specification explores: the bounds, and the environment of the   *)
(* open (interface names of the source definition, vif=<name> flag values  *)
(* with "" for no flag, names of other interfaces, existing kismonN,       *)
(* NetworkManager states).  Spec, SpecCapture and SpecOpen run the open,   *)
(* the channel control, the capture thread and the teardown, each          *)
(* exploring one part in depth; SpecProbe adds the probe command to them;  *)
(* SpecParse and SpecPrepare schedule only the steps named in their        *)
(* next-state relation.  A probe changes nothing but its own record, so    *)
(* the specifications that do not schedule it lose no behaviour of the     *)
(* other variables.                                                        *)
(***************************************************************************)
NarrowOpen ==
    [defInterfaces |-> {"", ShortIf}, defVifs |-> {""}, otherNames |-> {},
     kismon |-> {{}}, nm |-> {"absent"}]
WideOpen ==
    [defInterfaces |-> {"", ShortIf, LongIf}, defVifs |-> {"", "mon7"},
     otherNames |-> {"wlan9"}, kismon |-> {{}, {0}, 0..99},
     nm |-> {"absent", "unmanaged", "managed"}]
\* the same, with the interface names at the limit of the "mon" extension
LimitOpen ==
    [defInterfaces |-> {"", ShortIf, LongIf, FitIf, EdgeIf}, defVifs |-> {"", "mon7"},
     otherNames |-> {"wlan9"}, kismon |-> {{}, {0}, 0..99},
     nm |-> {"absent", "unmanaged", "managed"}]

\* channel control in depth
ChanExplore ==
    [open |-> NarrowOpen, privchans |-> PrivChans, maxRun |-> MaxRun,
     maxPackets |-> MinPackets, maxSendErrors |-> MinSendErrors,
     chanstrs |-> {<<"6">>}]
\* the capture thread in depth
CaptureExplore ==
    [open |-> NarrowOpen, privchans |-> {<<>>, <<BareChannel>>}, maxRun |-> MinRun,
     maxPackets |-> MaxPackets, maxSendErrors |-> MaxSendErrors,
     chanstrs |-> {<<"6">>}]
\* the open in depth
OpenExplore ==
    [open |-> WideOpen, privchans |-> {<<>>, <<BareChannel>>}, maxRun |-> MinRun,
     maxPackets |-> MinPackets, maxSendErrors |-> MinSendErrors,
     chanstrs |-> {<<"6">>}]
\* the preparation sequence of the open in depth
PrepareExplore ==
    [open |-> LimitOpen, privchans |-> {<<>>, <<BareChannel>>}, maxRun |-> MinRun,
     maxPackets |-> MinPackets, maxSendErrors |-> MinSendErrors,
     chanstrs |-> {<<"6">>}]
\* the probe in depth
ProbeExplore ==
    [open |-> NarrowOpen, privchans |-> {<<BareChannel>>}, maxRun |-> MinRun,
     maxPackets |-> MinPackets, maxSendErrors |-> MinSendErrors,
     chanstrs |-> {<<"6">>}]
\* the channel grammar in depth
ParseExplore ==
    [open |-> NarrowOpen, privchans |-> {<<>>, <<BareChannel>>}, maxRun |-> MinRun,
     maxPackets |-> MinPackets, maxSendErrors |-> MinSendErrors,
     chanstrs |-> ChannelStrings]

NoTranslation ==
    [calls |-> 0, chanstr |-> <<>>, chan |-> <<>>, messages |-> <<>>]

NoProbe ==
    [calls |-> 0, definition |-> "", ret |-> 0, msg |-> "", chanset |-> NULL,
     chanlist_sz |-> 0, backends |-> <<>>, capturing |-> FALSE]

NoCall ==
    [seqno |-> 0, privchan |-> <<>>, r |-> 0, ret |-> 0, ops |-> <<>>,
     messages |-> <<>>, errors |-> 0, configresp |-> <<>>,
     before |-> 0, calls |-> 0]

\* main(): the local_wifi initializer
Init ==
    /\ local_wifi = [pd |-> NULL, interface |-> NULL, cap_interface |-> NULL,
                     datalink_type |-> -1, override_dlt |-> -1,
                     use_mac80211 |-> 1, mac80211_handle |-> NULL,
                     seq_channel_failure |-> 0, reset_nm_management |-> 0]
    /\ caph = [userdata |-> NULL, callbacks |-> {}, hop_shuffle_spacing |-> 1]
    /\ mainpc = "start"
    /\ open = [pc |-> "none", ret |-> 0, vif |-> "", ignoreprimary |-> FALSE,
               mode |-> "none", first_mode |-> "none", ifaces |-> {}, kismon |-> {},
               msg |-> "", uuid |-> FALSE, chanlist_sz |-> 0,
               backends |-> <<>>, ops |-> <<>>, path |-> "none"]
    /\ cap = [pc |-> "idle", delivered |-> 0, sent |-> <<>>, breakloop |-> FALSE,
              sendErrors |-> 0, errors |-> 0, spindowns |-> 0,
              ifflags |-> "none", calls |-> <<>>, reads |-> {}]
    /\ spindown = FALSE
    /\ lastCall = NoCall
    /\ run = [fails |-> 0, diags |-> 0, terminals |-> 0]
    /\ teardown = [remanaged |-> FALSE, freed |-> FALSE, nm_found |-> FALSE, ops |-> <<>>]
    /\ xlate = NoTranslation
    /\ probe = NoProbe

(***************************************************************************)
(* main(): startup up to cf_handler_loop.                                  *)
(***************************************************************************)
MainStartup ==
    /\ mainpc = "start"
    /\ \E init_ok \in BOOLEAN, opts_ok \in BOOLEAN :
         IF ~init_ok \/ ~opts_ok
         THEN /\ mainpc' = "exited"
              /\ caph' = caph
         ELSE /\ mainpc' = "loop"
              /\ caph' = [userdata |-> "local_wifi",
                          callbacks |-> {"open", "probe", "chantranslate",
                                         "chancontrol", "capture"},
                          hop_shuffle_spacing |-> 4]
    /\ UNCHANGED <<local_wifi, open, cap, spindown, lastCall, run, teardown, xlate, probe>>

(***************************************************************************)
(* open_callback, one action per step of the preparation sequence.  The    *)
(* main thread is inside the callback from OpenBegin until open.pc is      *)
(* "returned"; no other main-thread action runs in between.                *)
(***************************************************************************)
\* Mutant: a failing return leaves msg as it was.
OpenFail_NoMessage(o, m) == [o EXCEPT !.pc = "returned", !.ret = -1]

\* return -1 with msg written
OpenFail(o, m) == [o EXCEPT !.pc = "returned", !.ret = -1, !.msg = m]

\* parse the definition, fetch the hardware address
OpenBegin(b) ==
    /\ mainpc = "loop"
    /\ "open" \in caph.callbacks
    /\ open.pc = "none"
    /\ \E ifn \in b.open.defInterfaces, vif \in b.open.defVifs, ign \in BOOLEAN, hwaddr_ok \in BOOLEAN :
         LET o == [open EXCEPT !.vif = vif, !.ignoreprimary = ign] IN
         IF ifn = ""
         THEN /\ open' = OpenFail(o, "Unable to find interface in definition")
              /\ local_wifi' = local_wifi
         ELSE /\ local_wifi' = [local_wifi EXCEPT !.interface = ifn]
              /\ open' = IF ~hwaddr_ok
                         THEN OpenFail(o, "Could not fetch interface address")
                         ELSE [o EXCEPT !.pc = "rfkill"]
    /\ UNCHANGED <<caph, mainpc, cap, spindown, lastCall, run, teardown, xlate, probe>>

\* Mutant: the soft rfkill is cleared before the hard rfkill is looked at.
OpenRfkill_ClearBeforeHardCheck ==
    /\ open.pc = "rfkill"
    /\ \E hard \in BOOLEAN, soft \in BOOLEAN, clear_ok \in BOOLEAN :
         LET o == IF soft
                  THEN [open EXCEPT !.ops = Append(@, <<"clear_rfkill", local_wifi.interface>>)]
                  ELSE open
         IN open' = IF soft /\ ~clear_ok
                    THEN OpenFail(o, "Unable to activate interface set to soft rfkill")
                    ELSE IF hard
                    THEN OpenFail(o, "Interface is set to hard rfkill")
                    ELSE [o EXCEPT !.uuid = TRUE, !.pc = "mode_probe"]
    /\ UNCHANGED <<local_wifi, caph, mainpc, cap, spindown, lastCall, run, teardown, xlate, probe>>

\* hard and soft rfkill, then the uuid
OpenRfkill ==
    /\ open.pc = "rfkill"
    /\ \E hard \in BOOLEAN, soft \in BOOLEAN, clear_ok \in BOOLEAN :
         open' = IF hard
                 THEN OpenFail(open, "Interface is set to hard rfkill")
                 ELSE IF soft
                 THEN IF ~clear_ok
                      THEN OpenFail([open EXCEPT !.ops = Append(@, <<"clear_rfkill", local_wifi.interface>>)],
                                    "Unable to activate interface set to soft rfkill")
                      ELSE [open EXCEPT !.ops = Append(@, <<"clear_rfkill", local_wifi.interface>>),
                                        !.uuid = TRUE, !.pc = "mode_probe"]
                 ELSE [open EXCEPT !.uuid = TRUE, !.pc = "mode_probe"]
    /\ UNCHANGED <<local_wifi, caph, mainpc, cap, spindown, lastCall, run, teardown, xlate, probe>>

\* iwconfig_get_mode of the interface
OpenModeProbe ==
    /\ open.pc = "mode_probe"
    /\ \E m \in Modes :
         open' = IF m = "fail"
                 THEN OpenFail(open, "Unable to get current wireless mode of interface")
                 ELSE [open EXCEPT !.mode = m, !.first_mode = m, !.pc = "nm"]
    /\ UNCHANGED <<local_wifi, caph, mainpc, cap, spindown, lastCall, run, teardown, xlate, probe>>

\* NetworkManager: nm is "absent" (no libnm, no daemon, or the device is
\* not known to it), "unmanaged" or "managed"
OpenNetworkManager(b) ==
    /\ open.pc = "nm"
    /\ \E nm \in b.open.nm :
         /\ local_wifi' = IF nm = "absent" THEN local_wifi
                          ELSE [local_wifi EXCEPT !.reset_nm_management =
                                                    IF nm = "managed" THEN 1 ELSE 0]
         /\ open' = [open EXCEPT !.pc = "pick_name",
                                 !.ops = IF nm = "managed"
                                         THEN Append(@, <<"nm_device_set_managed", local_wifi.interface, 0>>)
                                         ELSE @]
    /\ UNCHANGED <<caph, mainpc, cap, spindown, lastCall, run, teardown, xlate, probe>>

\* snprintf("%d") of an interface number below 100
FormatIfnum(n) ==
    IF n < 10 THEN Digit(n) ELSE Digit(n \div 10) \o Digit(n % 10)

RECURSIVE FindNextIfnumFrom(_, _)
FindNextIfnumFrom(i, existing) ==
    IF i >= 100 THEN -1
    ELSE IF i \notin existing THEN i
    ELSE FindNextIfnumFrom(i + 1, existing)

\* Mutant: the search starts at kismon1.
find_next_ifnum_FromOne(existing) == FindNextIfnumFrom(1, existing)

\* existing: the numbers N for which an interface kismonN exists
find_next_ifnum(existing) == FindNextIfnumFrom(0, existing)

\* The other interfaces of the system at the time of the open: at most one of
\* each name (the parent's <parent>mon when that is a possible name, and
\* otherNames), each with the same hardware address as the parent or not,
\* and a wireless mode.
OtherIfaces(parent, otherNames) ==
    LET names == otherNames \cup (IF Len(parent) + 3 < IFNAMSIZ
                                  THEN {parent \o "mon"} ELSE {})
        recs == [name : names, samemac : BOOLEAN, mode : {"monitor", "managed"}]
    IN { S \in SUBSET recs : \A x, y \in S : x.name = y.name => x = y }

\* Mutant: the mode of the interface with the mac is not looked at.
find_interface_mode_by_mac_AnyMode(ignored_ifname, wlmode, ifaces) ==
    LET found == { i.name : i \in { j \in ifaces : /\ j.name # ignored_ifname
                                                   /\ j.samemac } }
    IN IF found = {} THEN {NULL} ELSE found

\* The names find_interface_mode_by_mac can resolve to (NULL: returns -1):
\* any interface with the mac, another name and the wanted mode.
find_interface_mode_by_mac(ignored_ifname, wlmode, ifaces) ==
    LET found == { i.name : i \in { j \in ifaces : /\ j.name # ignored_ifname
                                                   /\ j.samemac
                                                   /\ j.mode = wlmode } }
    IN IF found = {} THEN {NULL} ELSE found

\* iwconfig_get_mode of a name among the other interfaces
GetModeOf(name, ifaces) ==
    IF \E i \in ifaces : i.name = name
    THEN (CHOOSE i \in ifaces : i.name = name).mode
    ELSE "fail"

\* choose the capture interface name; ifaces and kismon of the open record
\* are the interfaces of the system while the name is chosen
OpenPickName(b) ==
    /\ open.pc = "pick_name"
    /\ \E ifaces \in OtherIfaces(local_wifi.interface, b.open.otherNames),
          kismon \in b.open.kismon :
       \E existing \in find_interface_mode_by_mac(local_wifi.interface, "monitor", ifaces) :
         LET o == [open EXCEPT !.ifaces = ifaces, !.kismon = kismon] IN
         IF open.mode # "monitor"
         THEN LET adopted == IF open.vif # "" THEN open.vif
                             ELSE existing
              IN IF adopted # NULL
                 THEN /\ local_wifi' = [local_wifi EXCEPT !.cap_interface = adopted]
                      /\ open' = [o EXCEPT !.pc = "connect"]
                 ELSE IF Len(local_wifi.interface) + 3 >= IFNAMSIZ
                 THEN LET ifnum == find_next_ifnum(kismon) IN
                      IF ifnum < 0
                      THEN /\ open' = OpenFail(o, "could not find a kismonX within 100 tries")
                           /\ local_wifi' = local_wifi
                      ELSE /\ local_wifi' = [local_wifi EXCEPT
                                               !.cap_interface = "kismon" \o FormatIfnum(ifnum)]
                           /\ open' = [o EXCEPT !.pc = "connect"]
                 ELSE LET ifnam == local_wifi.interface \o "mon"
                          m == GetModeOf(ifnam, ifaces)
                      IN IF m # "fail" /\ m # "monitor"
                         THEN /\ open' = OpenFail([o EXCEPT !.mode = m],
                                   "A monitor vif already exists but isn't in monitor mode")
                              /\ local_wifi' = local_wifi
                         ELSE /\ local_wifi' = [local_wifi EXCEPT !.cap_interface = ifnam]
                              /\ open' = [o EXCEPT !.pc = "connect",
                                                   !.mode = IF m = "fail" THEN @ ELSE m]
         ELSE /\ local_wifi' = [local_wifi EXCEPT !.cap_interface = local_wifi.interface]
              /\ open' = [o EXCEPT !.pc = "connect"]
    /\ UNCHANGED <<caph, mainpc, cap, spindown, lastCall, run, teardown, xlate, probe>>

\* second mode query (tolerated), then mac80211_connect: from here on the
\* open interacts with the devices, and what the name choice saw is past
OpenConnect ==
    /\ open.pc = "connect"
    /\ \E m \in Modes, connect_ok \in BOOLEAN :
         /\ open' = [open EXCEPT !.mode = IF m = "fail" THEN "unknown" ELSE m,
                                 !.ifaces = {}, !.kismon = {},
                                 !.pc = "monitor"]
         /\ local_wifi' = [local_wifi EXCEPT !.mac80211_handle =
                                               IF connect_ok THEN "nl_sock" ELSE NULL]
    /\ UNCHANGED <<caph, mainpc, cap, spindown, lastCall, run, teardown, xlate, probe>>

\* Mutant: without a vif to create the mode is set whatever the mode is.
OpenMonitor_NoMonitorTest ==
    /\ open.pc = "monitor"
    /\ \E vif_ok \in BOOLEAN, setmode_ok \in BOOLEAN :
         IF /\ open.mode # "monitor"
            /\ local_wifi.mac80211_handle # NULL
            /\ local_wifi.interface # local_wifi.cap_interface
         THEN LET mkvif == <<"mac80211_create_monitor_vif", local_wifi.interface,
                             local_wifi.cap_interface>>
                  setmode == <<"iwconfig_set_mode", local_wifi.interface, "monitor">>
              IN IF ~vif_ok
                 THEN IF ~setmode_ok
                      THEN /\ open' = OpenFail([open EXCEPT !.ops = @ \o <<mkvif, setmode>>],
                                "Failed to create a monitor vif and could not set mode")
                           /\ local_wifi' = local_wifi
                      ELSE /\ open' = [open EXCEPT
                                         !.ops = @ \o <<mkvif, setmode,
                                                        <<"mac80211_disconnect", local_wifi.mac80211_handle>> >>,
                                         !.path = "vif_failed_legacy", !.pc = "bring_up"]
                           /\ local_wifi' = [local_wifi EXCEPT !.mac80211_handle = NULL]
                 ELSE /\ open' = [open EXCEPT !.ops = Append(@, mkvif),
                                              !.path = "vif_created", !.pc = "bring_up"]
                      /\ local_wifi' = [local_wifi EXCEPT !.use_mac80211 = 1]
         ELSE IF TRUE
         THEN LET setmode == <<"iwconfig_set_mode", local_wifi.interface, "monitor">> IN
              /\ open' = IF ~setmode_ok
                         THEN OpenFail([open EXCEPT !.ops = Append(@, setmode)],
                                "Could not create a monitor vif and could not set mode")
                         ELSE [open EXCEPT !.ops = Append(@, setmode),
                                           !.path = "legacy_setmode", !.pc = "bring_up"]
              /\ local_wifi' = local_wifi
         ELSE /\ open' = [open EXCEPT !.path = "already_monitor", !.pc = "bring_up"]
              /\ local_wifi' = local_wifi
    /\ UNCHANGED <<caph, mainpc, cap, spindown, lastCall, run, teardown, xlate, probe>>

\* monitor vif through mac80211, or monitor mode through the wireless extensions
OpenMonitor ==
    /\ open.pc = "monitor"
    /\ \E vif_ok \in BOOLEAN, setmode_ok \in BOOLEAN :
         IF /\ open.mode # "monitor"
            /\ local_wifi.mac80211_handle # NULL
            /\ local_wifi.interface # local_wifi.cap_interface
         THEN LET mkvif == <<"mac80211_create_monitor_vif", local_wifi.interface,
                             local_wifi.cap_interface>>
                  setmode == <<"iwconfig_set_mode", local_wifi.interface, "monitor">>
              IN IF ~vif_ok
                 THEN IF ~setmode_ok
                      THEN /\ open' = OpenFail([open EXCEPT !.ops = @ \o <<mkvif, setmode>>],
                                "Failed to create a monitor vif and could not set mode")
                           /\ local_wifi' = local_wifi
                      ELSE /\ open' = [open EXCEPT
                                         !.ops = @ \o <<mkvif, setmode,
                                                        <<"mac80211_disconnect", local_wifi.mac80211_handle>> >>,
                                         !.path = "vif_failed_legacy", !.pc = "bring_up"]
                           /\ local_wifi' = [local_wifi EXCEPT !.mac80211_handle = NULL]
                 ELSE /\ open' = [open EXCEPT !.ops = Append(@, mkvif),
                                              !.path = "vif_created", !.pc = "bring_up"]
                      /\ local_wifi' = [local_wifi EXCEPT !.use_mac80211 = 1]
         ELSE IF open.mode # "monitor"
         THEN LET setmode == <<"iwconfig_set_mode", local_wifi.interface, "monitor">> IN
              /\ open' = IF ~setmode_ok
                         THEN OpenFail([open EXCEPT !.ops = Append(@, setmode)],
                                "Could not create a monitor vif and could not set mode")
                         ELSE [open EXCEPT !.ops = Append(@, setmode),
                                           !.path = "legacy_setmode", !.pc = "bring_up"]
              /\ local_wifi' = local_wifi
         ELSE /\ open' = [open EXCEPT !.path = "already_monitor", !.pc = "bring_up"]
              /\ local_wifi' = local_wifi
    /\ UNCHANGED <<caph, mainpc, cap, spindown, lastCall, run, teardown, xlate, probe>>

\* Mutant: the capture interface is brought up before the parent is brought down.
OpenBringUp_UpBeforeDown ==
    /\ open.pc = "bring_up"
    /\ \E down_ok \in BOOLEAN, up_ok \in BOOLEAN :
         LET down == <<"ifconfig_interface_down", local_wifi.interface>>
             up == <<"ifconfig_interface_up", local_wifi.cap_interface>>
             godown == local_wifi.interface # local_wifi.cap_interface /\ ~open.ignoreprimary
             o1 == [open EXCEPT !.ops = Append(@, up)]
         IN open' = IF ~up_ok
                    THEN OpenFail(o1, "Could not bring up capture interface")
                    ELSE IF godown /\ ~down_ok
                    THEN OpenFail([o1 EXCEPT !.ops = Append(@, down)],
                                  "Could not bring down parent interface")
                    ELSE [o1 EXCEPT !.ops = IF godown THEN Append(@, down) ELSE @,
                                    !.pc = "list_chans"]
    /\ UNCHANGED <<local_wifi, caph, mainpc, cap, spindown, lastCall, run, teardown, xlate, probe>>

\* Mutant: the ignoreprimary flag is not looked at.
OpenBringUp_IgnoresFlag ==
    /\ open.pc = "bring_up"
    /\ \E down_ok \in BOOLEAN, up_ok \in BOOLEAN :
         LET down == <<"ifconfig_interface_down", local_wifi.interface>>
             up == <<"ifconfig_interface_up", local_wifi.cap_interface>>
             godown == local_wifi.interface # local_wifi.cap_interface
             o1 == IF godown THEN [open EXCEPT !.ops = Append(@, down)] ELSE open
         IN open' = IF godown /\ ~down_ok
                    THEN OpenFail(o1, "Could not bring down parent interface")
                    ELSE IF ~up_ok
                    THEN OpenFail([o1 EXCEPT !.ops = Append(@, up)],
                                  "Could not bring up capture interface")
                    ELSE [o1 EXCEPT !.ops = Append(@, up), !.pc = "list_chans"]
    /\ UNCHANGED <<local_wifi, caph, mainpc, cap, spindown, lastCall, run, teardown, xlate, probe>>

\* parent down (when a vif is used and ignoreprimary is not set), capture interface up
OpenBringUp ==
    /\ open.pc = "bring_up"
    /\ \E down_ok \in BOOLEAN, up_ok \in BOOLEAN :
         LET down == <<"ifconfig_interface_down", local_wifi.interface>>
             up == <<"ifconfig_interface_up", local_wifi.cap_interface>>
             godown == local_wifi.interface # local_wifi.cap_interface /\ ~open.ignoreprimary
             o1 == IF godown THEN [open EXCEPT !.ops = Append(@, down)] ELSE open
         IN open' = IF godown /\ ~down_ok
                    THEN OpenFail(o1, "Could not bring down parent interface")
                    ELSE IF ~up_ok
                    THEN OpenFail([o1 EXCEPT !.ops = Append(@, up)],
                                  "Could not bring up capture interface")
                    ELSE [o1 EXCEPT !.ops = Append(@, up), !.pc = "list_chans"]
    /\ UNCHANGED <<local_wifi, caph, mainpc, cap, spindown, lastCall, run, teardown, xlate, probe>>

\* Mutant: no channel from either backend is an error.
populate_chanlist_FailsWhenEmpty(nl_sz, iw_sz) ==
    IF nl_sz < 0
    THEN IF iw_sz < 0 \/ iw_sz = 0
         THEN [ret |-> -1, chanlist_sz |-> 0]
         ELSE [ret |-> 1, chanlist_sz |-> iw_sz]
    ELSE [ret |-> 1, chanlist_sz |-> nl_sz]

\* nl_sz, iw_sz: the sizes of the lists the backends return, -1 for a failure
populate_chanlist(nl_sz, iw_sz) ==
    IF nl_sz < 0
    THEN IF iw_sz < 0 \/ iw_sz = 0
         THEN [ret |-> 0, chanlist_sz |-> 0]
         ELSE [ret |-> 1, chanlist_sz |-> iw_sz]
    ELSE [ret |-> 1, chanlist_sz |-> nl_sz]

ChanlistSizes == {-1, 0, 3}

\* backends: the backend calls populate_chanlist made, with what they returned
OpenListChans ==
    /\ open.pc = "list_chans"
    /\ \E nl_sz \in ChanlistSizes, iw_sz \in ChanlistSizes :
         LET p == populate_chanlist(nl_sz, iw_sz)
             o1 == [open EXCEPT !.ops = Append(@, <<"populate_chanlist", local_wifi.cap_interface>>),
                                !.backends =
                                    <<[fn |-> "mac80211_get_chanlist", sz |-> nl_sz]>>
                                    \o (IF nl_sz < 0
                                        THEN <<[fn |-> "iwconfig_get_chanlist", sz |-> iw_sz]>>
                                        ELSE <<>>),
                                !.chanlist_sz = p.chanlist_sz]
         IN open' = IF p.ret < 0
                    THEN OpenFail(o1, "Could not get list of channels from capture interface")
                    ELSE [o1 EXCEPT !.pc = "open_pcap"]
    /\ UNCHANGED <<local_wifi, caph, mainpc, cap, spindown, lastCall, run, teardown, xlate, probe>>

DLT_IEEE802_11_RADIO == 127

\* pcap_open_live: "ok", "null" (no handle) or "warning" (a handle and a
\* non-empty error string)
OpenPcap ==
    /\ open.pc = "open_pcap"
    /\ \E res \in {"ok", "null", "warning"} :
         LET o1 == [open EXCEPT !.ops = Append(@, <<"pcap_open_live", local_wifi.cap_interface>>)] IN
         /\ local_wifi' = [local_wifi EXCEPT
                              !.pd = IF res = "null" THEN NULL ELSE "pcap",
                              !.datalink_type = IF res = "ok" THEN DLT_IEEE802_11_RADIO ELSE @]
         /\ open' = IF res # "ok"
                    THEN OpenFail(o1, "Could not open capture interface as a pcap capture")
                    ELSE [o1 EXCEPT !.pc = "returned", !.ret = 1,
                                    !.msg = IF local_wifi.interface # local_wifi.cap_interface
                                            THEN "Linux Wi-Fi capturing from monitor vif"
                                            ELSE "Linux Wi-Fi capturing from interface"]
    /\ UNCHANGED <<caph, mainpc, cap, spindown, lastCall, run, teardown, xlate, probe>>

(***************************************************************************)
(* The framework starts the capture thread once open has returned success. *)
(***************************************************************************)
StartCapture ==
    /\ mainpc = "loop"
    /\ open.pc = "returned" /\ open.ret = 1
    /\ "capture" \in caph.callbacks
    /\ cap.pc = "idle"
    /\ cap' = [cap EXCEPT !.pc = "pcap_loop", !.reads = @ \cup {"pd"}]
    /\ open' = [pc |-> "done", ret |-> open.ret, vif |-> "", ignoreprimary |-> FALSE,
                mode |-> "none", first_mode |-> "none", ifaces |-> {}, kismon |-> {},
                msg |-> "", uuid |-> FALSE, chanlist_sz |-> 0,
                backends |-> <<>>, ops |-> <<>>, path |-> open.path]
    /\ UNCHANGED <<local_wifi, caph, mainpc, spindown, lastCall, run, teardown, xlate, probe>>

(***************************************************************************)
(* probe_callback, on the main thread.  It is handed the definition and    *)
(* the out-parameters only; local_wifi is not among its arguments and it   *)
(* does not fetch caph->userdata.                                          *)
(***************************************************************************)
\* the backend calls of populate_chanlist on an interface, with what they returned
ChanlistBackends(ifname, nl_sz, iw_sz) ==
    <<[fn |-> "mac80211_get_chanlist", ifname |-> ifname, sz |-> nl_sz]>>
    \o (IF nl_sz < 0
        THEN <<[fn |-> "iwconfig_get_chanlist", ifname |-> ifname, sz |-> iw_sz]>>
        ELSE <<>>)

\* Mutant: a probe that finds no channel is fatal.
probe_callback_FatalWhenEmpty(definition, nl_sz, iw_sz) ==
    IF definition = ""
    THEN [ret |-> 0, msg |-> "Unable to find interface in definition",
          chanset |-> NULL, chanlist_sz |-> 0, backends |-> <<>>]
    ELSE LET p == populate_chanlist(nl_sz, iw_sz) IN
         [ret |-> IF p.ret <= 0 THEN -1 ELSE 1, msg |-> "", chanset |-> NULL,
          chanlist_sz |-> p.chanlist_sz,
          backends |-> ChanlistBackends(definition, nl_sz, iw_sz)]

\* definition: the interface named in the definition, "" for none
probe_callback(definition, nl_sz, iw_sz) ==
    IF definition = ""
    THEN [ret |-> 0, msg |-> "Unable to find interface in definition",
          chanset |-> NULL, chanlist_sz |-> 0, backends |-> <<>>]
    ELSE LET p == populate_chanlist(nl_sz, iw_sz) IN
         [ret |-> IF p.ret < 0 THEN -1 ELSE 1, msg |-> "", chanset |-> NULL,
          chanlist_sz |-> p.chanlist_sz,
          backends |-> ChanlistBackends(definition, nl_sz, iw_sz)]

\* The framework serves a probe command between two other callbacks of the
\* main thread; capturing: the capture thread was running during the call.
Probe(b) ==
    /\ mainpc = "loop"
    /\ open.pc \in {"none", "done"}
    /\ "probe" \in caph.callbacks
    /\ \E definition \in b.open.defInterfaces, nl_sz \in ChanlistSizes, iw_sz \in ChanlistSizes :
         LET res == probe_callback(definition, nl_sz, iw_sz) IN
         probe' = [calls |-> 1, definition |-> definition, ret |-> res.ret,
                   msg |-> res.msg, chanset |-> res.chanset,
                   chanlist_sz |-> res.chanlist_sz, backends |-> res.backends,
                   capturing |-> cap.pc \notin {"idle", "finished"}]
    /\ UNCHANGED <<local_wifi, caph, mainpc, open, cap, spindown, lastCall, run,
                   teardown, xlate>>

(***************************************************************************)
(* Channel control on the main thread: hop ticks (seqno 0) and configure   *)
(* commands (seqno # 0).  r is the backend's result.                       *)
(***************************************************************************)
\* The framework translates a channel string of a configure command or of
\* the hop list.
ChanTranslate(b) ==
    /\ mainpc = "loop"
    /\ open.pc = "done"
    /\ "chantranslate" \in caph.callbacks
    /\ \E chanstr \in b.chanstrs :
         LET res == chantranslate_callback(chanstr) IN
         xlate' = [calls |-> 1, chanstr |-> chanstr, chan |-> res.chan,
                   messages |-> res.messages]
    /\ UNCHANGED <<local_wifi, caph, mainpc, open, cap, spindown, lastCall, run, teardown, probe>>

ConfigureSeqnos == 1..MaxSeqno
BackendResults == {-1, 0}

ChanControl(seqno, privchan, r) ==
    LET res == chancontrol_callback(local_wifi, seqno, privchan, r) IN
    /\ mainpc = "loop"
    /\ open.pc = "done"
    /\ "chancontrol" \in caph.callbacks
    /\ xlate.calls = 1
    /\ local_wifi' = res.lw
    /\ lastCall' = [seqno |-> seqno, privchan |-> privchan, r |-> r, ret |-> res.ret,
                    ops |-> res.ops, messages |-> res.messages, errors |-> res.errors,
                    configresp |-> res.configresp,
                    before |-> local_wifi.seq_channel_failure, calls |-> 1]
    /\ run' = IF privchan = <<>> THEN run
              ELSE IF r >= 0 THEN [fails |-> 0, diags |-> 0, terminals |-> 0]
              ELSE IF seqno = 0
              THEN [fails |-> run.fails + 1,
                    diags |-> run.diags + Len(res.messages),
                    terminals |-> run.terminals + res.errors]
              ELSE run
    /\ UNCHANGED <<caph, mainpc, open, cap, spindown, teardown, xlate, probe>>

HopTick(b) ==
    \E privchan \in b.privchans, r \in BackendResults :
        /\ (privchan # <<>> /\ r < 0) => run.fails < b.maxRun
        /\ ChanControl(0, privchan, r)

Configure(b) ==
    \E seqno \in ConfigureSeqnos, privchan \in b.privchans, r \in BackendResults :
        ChanControl(seqno, privchan, r)

(***************************************************************************)
(* The capture thread: capture_thread, pcap_loop and pcap_dispatch_cb.     *)
(***************************************************************************)
\* pcap_loop hands the next packet to pcap_dispatch_cb
PcapDeliver(b) ==
    /\ cap.pc = "pcap_loop"
    /\ ~cap.breakloop
    /\ cap.delivered < b.maxPackets
    /\ cap' = [cap EXCEPT !.pc = "dispatch", !.delivered = @ + 1]
    /\ UNCHANGED <<local_wifi, caph, mainpc, open, spindown, lastCall, run, teardown, xlate, probe>>

\* Mutant: a full buffer drops the packet instead of waiting.
DispatchIteration_DropOnFull(c, ret) ==
    IF ret < 0
    THEN [c EXCEPT !.breakloop = TRUE, !.errors = @ + 1, !.sendErrors = @ + 1,
                   !.spindowns = @ + 1,
                   !.calls = @ \o << <<"cf_send_error", "unable to send DATA frame">>,
                                     <<"cf_handler_spindown">> >>,
                   !.reads = @ \cup {"datalink_type", "pd"}]
    ELSE IF ret = 0
    THEN [c EXCEPT !.pc = "pcap_loop", !.reads = @ \cup {"datalink_type"}]
    ELSE [c EXCEPT !.pc = "pcap_loop", !.sent = Append(@, c.delivered),
                   !.reads = @ \cup {"datalink_type"}]

\* Mutant: the send-error path does not call pcap_breakloop.
DispatchIteration_NoBreakloop(c, ret) ==
    IF ret < 0
    THEN [c EXCEPT !.errors = @ + 1, !.sendErrors = @ + 1, !.spindowns = @ + 1,
                   !.calls = @ \o << <<"cf_send_error", "unable to send DATA frame">>,
                                     <<"cf_handler_spindown">> >>,
                   !.reads = @ \cup {"datalink_type"}]
    ELSE IF ret = 0
    THEN [c EXCEPT !.pc = "wait_ringbuffer", !.reads = @ \cup {"datalink_type"}]
    ELSE [c EXCEPT !.pc = "pcap_loop", !.sent = Append(@, c.delivered),
                   !.reads = @ \cup {"datalink_type"}]

\* One iteration of the send loop of pcap_dispatch_cb; ret is what
\* cf_send_data returned (< 0 error, 0 buffer full, > 0 sent).
DispatchIteration(c, ret) ==
    IF ret < 0
    THEN [c EXCEPT !.breakloop = TRUE, !.errors = @ + 1, !.sendErrors = @ + 1,
                   !.spindowns = @ + 1,
                   !.calls = @ \o << <<"cf_send_error", "unable to send DATA frame">>,
                                     <<"cf_handler_spindown">> >>,
                   !.reads = @ \cup {"datalink_type", "pd"}]
    ELSE IF ret = 0
    THEN [c EXCEPT !.pc = "wait_ringbuffer", !.reads = @ \cup {"datalink_type"}]
    ELSE [c EXCEPT !.pc = "pcap_loop", !.sent = Append(@, c.delivered),
                   !.reads = @ \cup {"datalink_type"}]

DispatchSend(b) ==
    /\ cap.pc = "dispatch"
    /\ \E ret \in {-1, 0, 1} :
         /\ ret < 0 => cap.sendErrors < b.maxSendErrors
         /\ cap' = DispatchIteration(cap, ret)
         /\ spindown' = (spindown \/ ret < 0)
    /\ UNCHANGED <<local_wifi, caph, mainpc, open, lastCall, run, teardown, xlate, probe>>

\* cf_handler_wait_ringbuffer returns
RingbufferWake ==
    /\ cap.pc = "wait_ringbuffer"
    /\ cap' = [cap EXCEPT !.pc = "dispatch"]
    /\ UNCHANGED <<local_wifi, caph, mainpc, open, spindown, lastCall, run, teardown, xlate, probe>>

\* pcap_loop returns: pcap_breakloop was called, or the read failed
PcapLoopReturn ==
    /\ cap.pc = "pcap_loop"
    /\ cap' = [cap EXCEPT !.pc = "loop_exited"]
    /\ UNCHANGED <<local_wifi, caph, mainpc, open, spindown, lastCall, run, teardown, xlate, probe>>

\* Mutant: the second error does not depend on the interface flags.
CaptureThreadExit_NoFlagsTest ==
    /\ cap.pc = "loop_exited"
    /\ \E ifflags \in {"up", "down", "unreadable"} :
         cap' = [cap EXCEPT !.pc = "finished",
                            !.ifflags = ifflags,
                            !.errors = @ + 2,
                            !.spindowns = @ + 1,
                            !.calls = @ \o << <<"cf_send_error", "Interface closed">>,
                                              <<"cf_send_error", "Interface no longer appears to be up">>,
                                              <<"cf_handler_spindown">> >>,
                            !.reads = @ \cup {"pd", "cap_interface"}]
    /\ spindown' = TRUE
    /\ UNCHANGED <<local_wifi, caph, mainpc, open, lastCall, run, teardown, xlate, probe>>

\* Mutant: the capture thread closes the capture handle when the loop is over.
CaptureThreadExit_ClosesHandle ==
    /\ cap.pc = "loop_exited"
    /\ \E ifflags \in {"up", "down", "unreadable"} :
         cap' = [cap EXCEPT !.pc = "finished",
                            !.ifflags = ifflags,
                            !.errors = @ + (IF ifflags = "up" THEN 1 ELSE 2),
                            !.spindowns = @ + 1,
                            !.calls = @ \o << <<"cf_send_error", "Interface closed">> >>
                                        \o (IF ifflags = "up" THEN <<>>
                                            ELSE << <<"cf_send_error", "Interface no longer appears to be up">> >>)
                                        \o << <<"cf_handler_spindown">> >>,
                            !.reads = @ \cup {"pd", "cap_interface"}]
    /\ spindown' = TRUE
    /\ local_wifi' = [local_wifi EXCEPT !.pd = NULL]
    /\ UNCHANGED <<caph, mainpc, open, lastCall, run, teardown, xlate, probe>>

\* the rest of capture_thread: the errors and the spindown.  ifflags is what
\* ifconfig_get_flags found: IFF_UP set, IFF_UP clear, or nothing (ifret < 0)
CaptureThreadExit ==
    /\ cap.pc = "loop_exited"
    /\ \E ifflags \in {"up", "down", "unreadable"} :
         cap' = [cap EXCEPT !.pc = "finished",
                            !.ifflags = ifflags,
                            !.errors = @ + (IF ifflags = "up" THEN 1 ELSE 2),
                            !.spindowns = @ + 1,
                            !.calls = @ \o << <<"cf_send_error", "Interface closed">> >>
                                        \o (IF ifflags = "up" THEN <<>>
                                            ELSE << <<"cf_send_error", "Interface no longer appears to be up">> >>)
                                        \o << <<"cf_handler_spindown">> >>,
                            !.reads = @ \cup {"pd", "cap_interface"}]
    /\ spindown' = TRUE
    /\ UNCHANGED <<local_wifi, caph, mainpc, open, lastCall, run, teardown, xlate, probe>>

(***************************************************************************)
(* main() after cf_handler_loop.                                           *)
(***************************************************************************)
\* cf_handler_loop returns when no callback is running
LoopExit ==
    /\ mainpc = "loop"
    /\ (open.pc \in {"none", "done"} \/ (open.pc = "returned" /\ open.ret < 0))
    /\ mainpc' = "teardown"
    /\ UNCHANGED <<local_wifi, caph, open, cap, spindown, lastCall, run, teardown, xlate, probe>>

\* Mutant: the re-manage request does not depend on reset_nm_management.
MainTeardown_NoFlagTest ==
    /\ mainpc = "teardown"
    /\ \E nm_found \in BOOLEAN :
         teardown' = [remanaged |-> nm_found, freed |-> TRUE, nm_found |-> nm_found,
                      ops |-> (IF nm_found
                               THEN <<<<"nm_device_set_managed", local_wifi.interface, 1>>>>
                               ELSE <<>>) \o <<<<"cf_handler_free">>>>]
    /\ mainpc' = "parked"
    /\ UNCHANGED <<local_wifi, caph, open, cap, spindown, lastCall, run, xlate, probe>>

\* Mutant: main returns after the teardown.
MainTeardown_Returns ==
    /\ mainpc = "teardown"
    /\ \E nm_found \in BOOLEAN :
         LET remanage == local_wifi.reset_nm_management # 0 /\ nm_found IN
         teardown' = [remanaged |-> remanage, freed |-> TRUE, nm_found |-> nm_found,
                      ops |-> (IF remanage
                               THEN <<<<"nm_device_set_managed", local_wifi.interface, 1>>>>
                               ELSE <<>>) \o <<<<"cf_handler_free">>>>]
    /\ mainpc' = "exited"
    /\ UNCHANGED <<local_wifi, caph, open, cap, spindown, lastCall, run, xlate, probe>>

\* NetworkManager reset, cf_handler_free; then main sleeps forever
MainTeardown ==
    /\ mainpc = "teardown"
    /\ \E nm_found \in BOOLEAN :
         LET remanage == local_wifi.reset_nm_management # 0 /\ nm_found IN
         teardown' = [remanaged |-> remanage, freed |-> TRUE, nm_found |-> nm_found,
                      ops |-> (IF remanage
                               THEN <<<<"nm_device_set_managed", local_wifi.interface, 1>>>>
                               ELSE <<>>) \o <<<<"cf_handler_free">>>>]
    /\ mainpc' = "parked"
    /\ UNCHANGED <<local_wifi, caph, open, cap, spindown, lastCall, run, xlate, probe>>

Next(b) ==
    \/ MainStartup
    \/ OpenBegin(b) \/ OpenRfkill \/ OpenModeProbe \/ OpenNetworkManager(b)
    \/ OpenPickName(b) \/ OpenConnect \/ OpenMonitor \/ OpenBringUp
    \/ OpenListChans \/ OpenPcap
    \/ StartCapture
    \/ ChanTranslate(b) \/ HopTick(b) \/ Configure(b)
    \/ PcapDeliver(b) \/ DispatchSend(b) \/ RingbufferWake \/ PcapLoopReturn
    \/ CaptureThreadExit
    \/ LoopExit \/ MainTeardown

\* the program, with channel control explored in depth
Spec == Init /\ [][Next(ChanExplore)]_vars
\* the program, with the capture thread explored in depth
SpecCapture == Init /\ [][Next(CaptureExplore)]_vars
\* the program, with the open explored in depth
SpecOpen == Init /\ [][Next(OpenExplore)]_vars

\* The main thread from startup to the translation of channel strings, the
\* capture thread not scheduled.
NextParse ==
    \/ MainStartup
    \/ OpenBegin(ParseExplore) \/ OpenRfkill \/ OpenModeProbe
    \/ OpenNetworkManager(ParseExplore) \/ OpenPickName(ParseExplore)
    \/ OpenConnect \/ OpenMonitor \/ OpenBringUp \/ OpenListChans \/ OpenPcap
    \/ StartCapture
    \/ ChanTranslate(ParseExplore)

\* the channel grammar explored in depth
SpecParse == Init /\ [][NextParse]_vars

\* The main thread from startup through the open to the start of the
\* capture, and through the return of the event loop to the teardown; the
\* capture thread and the channel control not scheduled.
NextPrepare ==
    \/ MainStartup
    \/ OpenBegin(PrepareExplore) \/ OpenRfkill \/ OpenModeProbe
    \/ OpenNetworkManager(PrepareExplore) \/ OpenPickName(PrepareExplore)
    \/ OpenConnect \/ OpenMonitor \/ OpenBringUp \/ OpenListChans \/ OpenPcap
    \/ StartCapture
    \/ LoopExit \/ MainTeardown

\* the preparation sequence explored in depth
SpecPrepare == Init /\ [][NextPrepare]_vars

\* The program with the probe command served at any point of the event loop.
NextProbe ==
    \/ Next(ProbeExplore)
    \/ Probe(ProbeExplore)

\* the probe explored in depth
SpecProbe == Init /\ [][NextProbe]_vars

(***************************************************************************)
(* Properties.                                                             *)
(***************************************************************************)
\* C1: once 10 hop-context channel sets in a row have failed with no
\* successful set in between, a terminal error (cf_send_error) has been
\* emitted in that run.
C1_TenHopFailuresEscalate ==
    run.fails >= MaxSeqChannelFailure => run.terminals >= 1

\* C2: seq_channel_failure_count equals the number of consecutive failed
\* hop-context channel sets since the last successful set (every tolerated
\* failure steps it by one, nothing else does).
C2_CounterCountsHopFailures ==
    run.fails <= MaxSeqChannelFailure => local_wifi.seq_channel_failure = run.fails

\* C3: a failed channel set with seqno # 0 returns the failure result and
\* is not tolerated: no tolerated-failure diagnostic, no configure-response,
\* the counter as before.  It holds of the call just made, and of the same
\* call made with either backend flag and every counter value.
C3_ConfigureFailureIsTerminal ==
    (lastCall.calls = 1 /\ lastCall.privchan # <<>> /\ lastCall.r < 0 /\ lastCall.seqno # 0) =>
        /\ lastCall.ret = -1
        /\ lastCall.messages = <<>>
        /\ lastCall.configresp = <<>>
        /\ local_wifi.seq_channel_failure = lastCall.before
        /\ \A use \in {0, 1}, k \in 0..MaxRun :
             LET res == chancontrol_callback(
                            [local_wifi EXCEPT !.use_mac80211 = use,
                                               !.seq_channel_failure = k],
                            lastCall.seqno, lastCall.privchan, lastCall.r)
             IN /\ res.ret = -1
                /\ res.messages = <<>>
                /\ res.configresp = <<>>
                /\ res.lw.seq_channel_failure = k

\* C3 witness: a configure command's set failed on the netlink backend after
\* some tolerated hop failures.
C3_Witness ==
    /\ lastCall.calls = 1 /\ lastCall.privchan # <<>> /\ lastCall.r < 0
    /\ lastCall.seqno # 0 /\ lastCall.ret = -1
    /\ lastCall.ops[1].fn = "mac80211_set_frequency_cache"
    /\ run.fails >= 3

\* C4: a successful set with seqno # 0 emits exactly one configure-response
\* for that seqno carrying the serialized channel, on either backend; one
\* with seqno = 0 emits none.
C4_ConfigureResponseOnSuccess ==
    (lastCall.calls = 1 /\ lastCall.privchan # <<>> /\ lastCall.r >= 0) =>
        lastCall.configresp =
            IF lastCall.seqno # 0
            THEN <<[seqno |-> lastCall.seqno, success |-> 1,
                    chanstr |-> local_channel_to_str(lastCall.privchan[1])]>>
            ELSE <<>>

\* C5: after a successful channel set seq_channel_failure_count is 0: after
\* the call just made (any seqno), and after the same call made with either
\* backend flag and every prior counter value.
C5_SuccessResetsCounter ==
    (lastCall.calls = 1 /\ lastCall.privchan # <<>> /\ lastCall.r >= 0) =>
        /\ local_wifi.seq_channel_failure = 0
        /\ \A use \in {0, 1}, k \in 0..MaxRun :
             chancontrol_callback(
                 [local_wifi EXCEPT !.use_mac80211 = use, !.seq_channel_failure = k],
                 lastCall.seqno, lastCall.privchan, lastCall.r).lw.seq_channel_failure = 0

\* C5 witness: a configure command's set of a VHT80 channel succeeded.
C5_Witness ==
    /\ lastCall.calls = 1 /\ lastCall.privchan # <<>> /\ lastCall.r >= 0
    /\ lastCall.seqno # 0
    /\ lastCall.privchan[1].chan_width = NL80211_CHAN_WIDTH_80
    /\ local_wifi.seq_channel_failure = 0

\* C6: a hop-context failure that is at most the 10th in a row is tolerated:
\* it returns 0, emits exactly one ERROR diagnostic and no terminal error;
\* so a run of up to 10 failures has as many ERROR diagnostics as failures
\* and no terminal error, and the successful set that ends a run of 9
\* leaves the counter at 0.
C6_HopFailureTolerated ==
    /\ [](/\ (/\ lastCall.calls = 1 /\ lastCall.privchan # <<>> /\ lastCall.r < 0
              /\ lastCall.seqno = 0 /\ run.fails <= MaxSeqChannelFailure) =>
                /\ lastCall.ret = 0
                /\ Len(lastCall.messages) = 1
                /\ lastCall.messages[1].flag = "ERROR"
                /\ lastCall.errors = 0
          /\ run.fails <= MaxSeqChannelFailure =>
                (run.diags = run.fails /\ run.terminals = 0))
    /\ [][(run.fails = 9 /\ run'.fails = 0) =>
            /\ run.diags = 9 /\ run.terminals = 0
            /\ local_wifi'.seq_channel_failure = 0
            /\ lastCall'.ret = 0 /\ lastCall'.errors = 0]_vars

\* C6 witness: the ninth hop-context failure in a row has just been tolerated.
C6_Witness ==
    /\ lastCall.calls = 1 /\ lastCall.privchan # <<>> /\ lastCall.r < 0
    /\ lastCall.seqno = 0 /\ lastCall.ret = 0
    /\ run.fails = 9 /\ run.diags = 9 /\ run.terminals = 0

\* C7: after an open in which the monitor vif could not be created and the
\* legacy set-mode succeeded, every channel set takes the legacy path, with
\* use_netlink false and the netlink session released.
C7_LegacyFallbackUsesLegacyPath ==
    (open.path = "vif_failed_legacy" /\ lastCall.calls = 1 /\ lastCall.privchan # <<>>) =>
        /\ local_wifi.mac80211_handle = NULL
        /\ local_wifi.use_mac80211 = 0
        /\ lastCall.ops[1].fn = "iwconfig_set_channel"

\* C8: a call with a descriptor issues exactly one backend operation, the
\* one the dispatch rule names, with the arguments it names; the same call
\* with use_mac80211 cleared issues the legacy frequency set of control_freq
\* alone.
C8_DispatchRule ==
    (lastCall.calls = 1 /\ lastCall.privchan # <<>>) =>
        LET c == lastCall.privchan[1]
            op == lastCall.ops[1]
        IN /\ Len(lastCall.ops) = 1
           /\ (local_wifi.use_mac80211 # 0 /\ c.chan_width # NL80211_CHAN_WIDTH_20_NOHT) =>
                 /\ op.fn = "mac80211_set_frequency_cache"
                 /\ op.args = <<c.control_freq, c.chan_width, c.center_freq1, c.center_freq2>>
           /\ (local_wifi.use_mac80211 # 0 /\ c.chan_width = NL80211_CHAN_WIDTH_20_NOHT) =>
                 /\ op.fn = "mac80211_set_channel_cache"
                 /\ op.args = <<c.control_freq, c.chan_type>>
           /\ local_wifi.use_mac80211 = 0 =>
                 /\ op.fn = "iwconfig_set_channel"
                 /\ op.args = <<c.control_freq>>
           /\ LET legacy == chancontrol_callback(
                                [local_wifi EXCEPT !.use_mac80211 = 0],
                                lastCall.seqno, lastCall.privchan, lastCall.r).ops
              IN /\ Len(legacy) = 1
                 /\ legacy[1].fn = "iwconfig_set_channel"
                 /\ legacy[1].args = <<c.control_freq>>

\* C8 witness: the VHT80 channel was set through set_frequency with its
\* width and center.
C8_Witness ==
    /\ lastCall.calls = 1
    /\ lastCall.ops = <<[fn |-> "mac80211_set_frequency_cache",
                         ifname |-> local_wifi.cap_interface,
                         handle |-> local_wifi.mac80211_handle,
                         args |-> <<5180, NL80211_CHAN_WIDTH_80, 5210, 0>>]>>

\* C9: whenever the worker is back in the packet reader (or past it), every
\* delivered packet has been sent "ok" exactly once; while it is in
\* pcap_dispatch_cb (sending, or waiting for the ring buffer) that holds of
\* every packet but the current one, which has not been sent "ok" yet; and
\* a ring-buffer wait is followed by a retry of the same packet.
C9_NoDropNoDuplicate ==
    /\ [](/\ cap.pc \in {"pcap_loop", "loop_exited", "finished"} =>
                cap.sent = [i \in 1..cap.delivered |-> i]
          /\ cap.pc \in {"dispatch", "wait_ringbuffer"} =>
                (cap.delivered >= 1 /\ cap.sent = [i \in 1..(cap.delivered - 1) |-> i]))
    /\ [][cap.pc = "wait_ringbuffer" =>
            /\ cap'.pc \in {"wait_ringbuffer", "dispatch"}
            /\ cap'.delivered = cap.delivered
            /\ cap'.sent = cap.sent]_vars

\* C9 witness: the second packet met a full buffer after the first was sent.
C9_Witness ==
    cap.pc = "wait_ringbuffer" /\ cap.delivered = 2 /\ cap.sent = <<1>>

\* C10: once cf_send_data has returned an error, pcap_breakloop has been
\* called, an error has been sent and the spindown has been initiated; and
\* no further packet is read.
C10_SendErrorShutsDown ==
    /\ [](cap.sendErrors > 0 =>
            /\ cap.breakloop
            /\ cap.errors >= cap.sendErrors
            /\ cap.spindowns >= cap.sendErrors
            /\ spindown)
    /\ [][cap.sendErrors > 0 => cap'.delivered = cap.delivered]_vars

\* C10 witness: the send of the second packet returned an error, and the
\* thread has since left pcap_loop.
C10_Witness ==
    cap.sendErrors = 1 /\ cap.delivered = 2 /\ cap.pc = "finished"

\* C11: after open has succeeded, cap_interface equals interface exactly
\* when no monitor vif was created by the open.
C11_CapInterfaceIsParentIffNoVif ==
    (open.pc \in {"returned", "done"} /\ open.ret = 1) =>
        ((local_wifi.cap_interface = local_wifi.interface) <=> (open.path # "vif_created"))

\* C12: a failed wireless-mode query does not make open fail: from the mode
\* probe open always goes on to its next step.
C12_ModeProbeFailureTolerated ==
    [][(open.pc = "mode_probe" /\ open' # open) =>
          (open'.pc = "nm" /\ open'.ret = 0)]_vars

\* C13: an open that fails on hard rfkill has issued no state-changing
\* operation (no rfkill clear either) and has not touched NetworkManager; an
\* open that fails on the soft-rfkill clear has issued that clear and
\* nothing else; both have returned -1.
C13_RfkillFailures ==
    /\ open.msg = "Interface is set to hard rfkill" =>
         /\ open.pc = "returned" /\ open.ret = -1
         /\ open.ops = <<>>
         /\ local_wifi.reset_nm_management = 0
         /\ local_wifi.cap_interface = NULL
    /\ open.msg = "Unable to activate interface set to soft rfkill" =>
         /\ open.pc = "returned" /\ open.ret = -1
         /\ open.ops = << <<"clear_rfkill", local_wifi.interface>> >>
         /\ local_wifi.reset_nm_management = 0
         /\ local_wifi.cap_interface = NULL

\* C13 witness: open has failed on hard rfkill and main has parked.
C13_Witness ==
    /\ open.msg = "Interface is set to hard rfkill"
    /\ open.ret = -1
    /\ mainpc = "parked"

\* C14 as stated: once main has parked, a re-manage request was issued
\* exactly when reset_nm_management is set.
C14_RemanageWheneverFlagSet ==
    mainpc = "parked" =>
        (teardown.remanaged <=> (local_wifi.reset_nm_management # 0))

\* C14, amended: nothing is re-managed or freed before the event loop has
\* returned; once main has parked the handle has been freed, and a re-manage
\* request for the parent interface was issued, before the free, exactly
\* when reset_nm_management is set and the daemon was reachable and listed
\* the interface; also when the open failed after setting the flag.
C14_RemanageWhenDaemonListsInterface ==
    /\ mainpc \in {"start", "loop", "teardown", "exited"} => teardown.ops = <<>>
    /\ mainpc = "parked" =>
         /\ teardown.freed
         /\ teardown.remanaged <=>
               (local_wifi.reset_nm_management # 0 /\ teardown.nm_found)
         /\ teardown.ops =
               IF local_wifi.reset_nm_management # 0 /\ teardown.nm_found
               THEN << <<"nm_device_set_managed", local_wifi.interface, 1>>,
                       <<"cf_handler_free">> >>
               ELSE << <<"cf_handler_free">> >>

\* C14 witness: the open that switched the management off failed at a later
\* step, and the interface was re-managed before main parked.
C14_Witness ==
    /\ mainpc = "parked"
    /\ local_wifi.reset_nm_management # 0
    /\ open.ret = -1
    /\ teardown.ops[1] = <<"nm_device_set_managed", local_wifi.interface, 1>>

\* C15: once cf_handler_loop has been entered main never returns or exits:
\* it stays in the loop, tears down, or is parked; parked, it stays parked,
\* with the handle freed.
C15_ParksForever ==
    /\ [](mainpc = "parked" => teardown.freed)
    /\ [][/\ mainpc \in {"loop", "teardown", "parked"} =>
                mainpc' \in {"loop", "teardown", "parked"}
          /\ mainpc = "parked" => mainpc' = "parked"]_vars

\* C15 witness: the capture has ended, the loop has returned and main is
\* parked.
C15_Witness ==
    /\ mainpc = "parked"
    /\ teardown.freed
    /\ cap.pc = "finished"

\* C16: every descriptor chantranslate_callback returns is returned again,
\* equal in all six fields, for the string local_channel_to_str renders it
\* to.
C16_ParseSerializeRoundTrip ==
    (xlate.calls = 1 /\ xlate.chan # <<>>) =>
        chantranslate_callback(local_channel_to_str(xlate.chan[1])).chan = xlate.chan

\* C16 witness: "36VHT80-5210" was translated to a descriptor with the
\* explicit center, whose rendering is that string again.
C16_Witness ==
    /\ xlate.calls = 1
    /\ xlate.chanstr = <<"3", "6", "V", "H", "T", "8", "0", "-", "5", "2", "1", "0">>
    /\ xlate.chan = <<local_channel_t(36, 0, NL80211_CHAN_WIDTH_80, 1, 5210, 0)>>
    /\ local_channel_to_str(xlate.chan[1]) = xlate.chanstr

\* C17: NNVHT80 / NNVHT160 without a center translates to the table's
\* frequency for NN and the table's 80 / 160 MHz center, unusual_center1
\* clear, when the table gives NN the flag; otherwise to NULL with an error.
C17_VhtFromTableOrError ==
    \A n \in ParseNumbers :
    \A w \in { [suffix |-> <<"V", "H", "T", "8", "0">>, width |-> NL80211_CHAN_WIDTH_80,
                flag |-> "HT80"],
               [suffix |-> <<"V", "H", "T", "1", "6", "0">>, width |-> NL80211_CHAN_WIDTH_160,
                flag |-> "HT160"] } :
        (xlate.calls = 1 /\ xlate.chanstr = FormatUnsigned(n) \o w.suffix) =>
            LET rows == { i \in 1..MAX_WIFI_HT_CHANNEL :
                            /\ wifi_ht_channels[i].chan = n \/ wifi_ht_channels[i].freq = n
                            /\ w.flag \in wifi_ht_channels[i].flags }
            IN IF rows # {}
               THEN LET row == wifi_ht_channels[CHOOSE i \in rows : TRUE] IN
                    xlate.chan = <<local_channel_t(row.freq, 0, w.width, 0,
                                       IF w.flag = "HT80" THEN row.freq80 ELSE row.freq160,
                                       0)>>
               ELSE xlate.chan = <<>> /\ xlate.messages = <<ErrorMessage>>

\* C18: a returned descriptor whose chan_width is 80MHz or 160MHz has a
\* center_freq1 other than 0.
C18_VhtHasCenter ==
    (/\ xlate.calls = 1 /\ xlate.chan # <<>>
     /\ xlate.chan[1].chan_width \in {NL80211_CHAN_WIDTH_80, NL80211_CHAN_WIDTH_160}) =>
        xlate.chan[1].center_freq1 # 0

\* C19: the translation does not depend on the letter case of the suffix:
\* the string in lower case translates to the same descriptor.
C19_SuffixCaseInsensitive ==
    xlate.calls = 1 =>
        chantranslate_callback([i \in 1..Len(xlate.chanstr) |-> tolower(xlate.chanstr[i])]).chan
            = xlate.chan

\* C20: NNHT40+ / NNHT40- translates to control_freq NN with the matching
\* chan_type, with one INFO diagnostic exactly when the table has no row for
\* NN with the matching HT40 flag, and with none when it has.
C20_HT40DiagnosticIffNotInTable ==
    \A n \in ParseNumbers :
    \A m \in { [mod |-> "+", type |-> NL80211_CHAN_HT40PLUS, flag |-> "HT40PLUS"],
               [mod |-> "-", type |-> NL80211_CHAN_HT40MINUS, flag |-> "HT40MINUS"] } :
        (xlate.calls = 1
           /\ xlate.chanstr = FormatUnsigned(n) \o <<"H", "T", "4", "0">> \o <<m.mod>>) =>
            /\ xlate.chan = <<local_channel_t(n, m.type, 0, 0, 0, 0)>>
            /\ xlate.messages =
                  IF \E i \in 1..MAX_WIFI_HT_CHANNEL :
                        /\ wifi_ht_channels[i].chan = n \/ wifi_ht_channels[i].freq = n
                        /\ m.flag \in wifi_ht_channels[i].flags
                  THEN <<>>
                  ELSE <<InfoMessage>>


\* C21: a string with a leading integer NN and a suffix that is none of
\* HT40+, HT40-, W5, W10, VHT80, VHT160 (in either case) and none of VHT80-CC,
\* VHT160-CC translates to the bare descriptor of NN with exactly one INFO
\* diagnostic; a string with no leading integer translates to NULL with an
\* ERROR diagnostic.
C21_UnknownSuffixIsBareWithInfo ==
    xlate.calls = 1 =>
        LET u == ScanUnsigned(xlate.chanstr)
            forms == { <<"h", "t", "4", "0", "+">>, <<"h", "t", "4", "0", "-">>,
                       <<"w", "5">>, <<"w", "1", "0">>,
                       <<"v", "h", "t", "8", "0">>, <<"v", "h", "t", "1", "6", "0">> }
            vht == { <<"v", "h", "t", "8", "0", "-">>, <<"v", "h", "t", "1", "6", "0", "-">> }
            recognized ==
                \/ \E f \in forms : strcasecmp_eq(u.rest, f)
                \/ \E f \in vht :
                      /\ Len(u.rest) > Len(f)
                      /\ strcasecmp_eq(SubSeq(u.rest, 1, Len(f)), f)
                      /\ DigitsLen(SubSeq(u.rest, Len(f) + 1, Len(u.rest)))
                            = Len(u.rest) - Len(f)
        IN /\ u.n = 0 =>
                (xlate.chan = <<>> /\ xlate.messages = <<ErrorMessage>>)
           /\ (u.n > 0 /\ u.rest # <<>> /\ ~recognized) =>
                /\ xlate.chan = <<local_channel_t(u.value, 0, 0, 0, 0, 0)>>
                /\ xlate.messages = <<InfoMessage>>


\* C22: open never fails for want of channels: the channel-list step always
\* goes on to the capture open; when neither backend gave a channel the list
\* has size 0, and open then fails only if the capture cannot be opened and
\* otherwise returns success with that empty list.
C22_EmptyChanlistNotFatal ==
    /\ [](/\ open.msg # "Could not get list of channels from capture interface"
          /\ (/\ open.backends # <<>>
              /\ \A i \in 1..Len(open.backends) : open.backends[i].sz <= 0) =>
                /\ open.chanlist_sz = 0
                /\ open.pc \in {"open_pcap", "returned"}
                /\ open.pc = "returned" =>
                      \/ open.ret = 1
                      \/ open.msg = "Could not open capture interface as a pcap capture")
    /\ [][(open.pc = "list_chans" /\ open' # open) =>
            (open'.pc = "open_pcap" /\ open'.ret = 0)]_vars

\* C22 witness: both backends failed and open has returned success with no
\* channels.
C22_Witness ==
    /\ open.pc = "returned" /\ open.ret = 1
    /\ open.backends = <<[fn |-> "mac80211_get_chanlist", sz |-> -1],
                         [fn |-> "iwconfig_get_chanlist", sz |-> -1]>>
    /\ open.chanlist_sz = 0


\* C23: an open that has failed has returned -1 with a non-empty message;
\* it has issued no operation of a step after the failing one, the capture
\* thread has not been started, and nothing of the open is executed
\* afterwards: its record, the InterfaceState and the capture thread stay
\* as the failing return left them.
C23_FailureLeavesMessageAndStops ==
    /\ [](open.ret = -1 =>
            LET fns == { open.ops[i][1] : i \in 1..Len(open.ops) }
                upto_rfkill == {"clear_rfkill"}
                upto_nm == upto_rfkill \cup {"nm_device_set_managed"}
                upto_monitor == upto_nm \cup {"mac80211_create_monitor_vif",
                                               "iwconfig_set_mode", "mac80211_disconnect"}
                upto_down == upto_monitor \cup {"ifconfig_interface_down"}
                upto_up == upto_down \cup {"ifconfig_interface_up"}
            IN /\ open.pc = "returned"
               /\ open.msg # ""
               /\ cap.pc = "idle"
               /\ open.msg \in {"Unable to find interface in definition",
                                "Could not fetch interface address",
                                "Interface is set to hard rfkill"} => fns = {}
               /\ open.msg \in {"Unable to activate interface set to soft rfkill",
                                "Unable to get current wireless mode of interface"} =>
                     fns \subseteq upto_rfkill
               /\ open.msg \in {"could not find a kismonX within 100 tries",
                                "A monitor vif already exists but isn't in monitor mode"} =>
                     fns \subseteq upto_nm
               /\ open.msg \in {"Failed to create a monitor vif and could not set mode",
                                "Could not create a monitor vif and could not set mode"} =>
                     fns \subseteq upto_monitor
               /\ open.msg = "Could not bring down parent interface" =>
                     fns \subseteq upto_down
               /\ open.msg = "Could not bring up capture interface" =>
                     fns \subseteq upto_up
               /\ open.msg # "Could not open capture interface as a pcap capture" =>
                     (local_wifi.pd = NULL /\ open.chanlist_sz = 0 /\ open.backends = <<>>))
    /\ [][open.ret = -1 =>
            (open' = open /\ local_wifi' = local_wifi /\ cap' = cap)]_vars

\* C23 witness: open failed when the parent could not be brought down, after
\* the monitor vif had been created, and main has since parked.
C23_Witness ==
    /\ open.ret = -1
    /\ open.msg = "Could not bring down parent interface"
    /\ open.path = "vif_created"
    /\ mainpc = "parked"


\* C24: once main is in the event loop the InterfaceState is attached as
\* userdata, the list, probe, open, channel-translate and channel-control
\* callbacks are registered, and the hop shuffle spacing is 4.
C24_StartupRegistersAllHandlers ==
    mainpc = "loop" =>
        /\ caph.userdata = "local_wifi"
        /\ {"list", "probe", "open", "chantranslate", "chancontrol"} \subseteq caph.callbacks
        /\ caph.hop_shuffle_spacing = 4


\* C25 as stated: once the capture thread has finished, it has sent the second
\* error exactly when the interface was not up or its flags could not be
\* read, and it has called cf_handler_spindown exactly once, after every
\* error it sent.
C25_SpindownOnceAfterAllErrors ==
    cap.pc = "finished" =>
        LET spins == { i \in 1..Len(cap.calls) : cap.calls[i] = <<"cf_handler_spindown">> }
        IN /\ (\E i \in 1..Len(cap.calls) :
                  cap.calls[i] = <<"cf_send_error", "Interface no longer appears to be up">>)
                <=> (cap.ifflags # "up")
           /\ spins = {Len(cap.calls)}

\* C25, amended: every failed send has sent its error and called
\* cf_handler_spindown at once, before the read loop exited; after the read
\* loop has exited capture_thread sends the "closed" error, then the second
\* error exactly when the interface was not up or its flags could not be
\* read, and calls cf_handler_spindown once more as its last step.  So the
\* spindown is called exactly once, after every error, exactly when no send
\* failed.
C25_ThreadEndsWithErrorsThenSpindown ==
    LET sends == [i \in 1..(2 * cap.sendErrors) |->
                    IF i % 2 = 1 THEN <<"cf_send_error", "unable to send DATA frame">>
                    ELSE <<"cf_handler_spindown">>]
        tail == << <<"cf_send_error", "Interface closed">> >>
                  \o (IF cap.ifflags = "up" THEN <<>>
                      ELSE << <<"cf_send_error", "Interface no longer appears to be up">> >>)
                  \o << <<"cf_handler_spindown">> >>
    IN /\ cap.pc # "finished" => (cap.calls = sends /\ cap.ifflags = "none")
       /\ cap.pc = "finished" =>
            /\ cap.ifflags \in {"up", "down", "unreadable"}
            /\ cap.calls = sends \o tail
            /\ cap.spindowns = cap.sendErrors + 1
            /\ spindown

\* C25 witness: a send failed, the read loop exited, the interface was found
\* down and the thread has finished.
C25_Witness ==
    /\ cap.pc = "finished"
    /\ cap.sendErrors = 1
    /\ cap.ifflags = "down"
    /\ cap.calls = << <<"cf_send_error", "unable to send DATA frame">>,
                      <<"cf_handler_spindown">>,
                      <<"cf_send_error", "Interface closed">>,
                      <<"cf_send_error", "Interface no longer appears to be up">>,
                      <<"cf_handler_spindown">> >>


\* C26: in an open whose mode queries both found the interface in monitor
\* mode, cap_interface is the interface; no monitor vif is created, no mode
\* is set and the interface is not brought down; the interface is brought
\* up, and on success the device operations are exactly: interface up,
\* channel list and pcap_open_live, all on the interface.
C26_AlreadyMonitorOpensInPlace ==
    (/\ open.first_mode = "monitor" /\ open.mode = "monitor"
     /\ open.pc \in {"monitor", "bring_up", "list_chans", "open_pcap", "returned"}) =>
        LET fns == { open.ops[i][1] : i \in 1..Len(open.ops) }
            device(op) == op[1] \notin {"clear_rfkill", "nm_device_set_managed"}
            dev == SelectSeq(open.ops, device)
        IN /\ local_wifi.cap_interface = local_wifi.interface
           /\ fns \cap {"mac80211_create_monitor_vif", "iwconfig_set_mode",
                        "mac80211_disconnect", "ifconfig_interface_down"} = {}
           /\ open.path \in {"none", "already_monitor"}
           /\ open.pc \in {"list_chans", "open_pcap"} =>
                 dev[1] = <<"ifconfig_interface_up", local_wifi.interface>>
           /\ open.ret = 1 =>
                 /\ dev = << <<"ifconfig_interface_up", local_wifi.interface>>,
                             <<"populate_chanlist", local_wifi.interface>>,
                             <<"pcap_open_live", local_wifi.interface>> >>
                 /\ local_wifi.pd # NULL
                 /\ open.msg = "Linux Wi-Fi capturing from interface"

\* C26 witness: wlan0, given with a vif= flag and found in monitor mode, has
\* been opened in place.
C26_Witness ==
    /\ open.pc = "returned" /\ open.ret = 1
    /\ open.first_mode = "monitor" /\ open.mode = "monitor"
    /\ open.vif = "mon7"
    /\ local_wifi.interface = ShortIf
    /\ local_wifi.cap_interface = ShortIf
    /\ open.path = "already_monitor"


\* C27 as stated: a managed interface P with a short name, no vif= flag and
\* no monitor sibling gets the capture name Pmon; and the successful open
\* that created the vif Pmon has made exactly these device operations, in
\* this order: create the monitor vif Pmon on P, P down, Pmon up, channel
\* list of Pmon, pcap_open_live of Pmon.
C27_ManagedOpenCreatesVifInOrder ==
    LET P == local_wifi.interface
        device(op) == op[1] \notin {"clear_rfkill", "nm_device_set_managed"}
    IN /\ (/\ open.pc = "connect" /\ open.first_mode = "managed" /\ open.vif = ""
            /\ Len(P) + 3 < IFNAMSIZ
            /\ ~\E i \in open.ifaces : i.samemac /\ i.mode = "monitor") =>
               local_wifi.cap_interface = P \o "mon"
       /\ (/\ open.pc = "returned" /\ open.ret = 1
            /\ open.first_mode = "managed" /\ open.vif = ""
            /\ open.path = "vif_created"
            /\ local_wifi.cap_interface = P \o "mon") =>
               SelectSeq(open.ops, device) =
                   << <<"mac80211_create_monitor_vif", P, P \o "mon">>,
                      <<"ifconfig_interface_down", P>>,
                      <<"ifconfig_interface_up", P \o "mon">>,
                      <<"populate_chanlist", P \o "mon">>,
                      <<"pcap_open_live", P \o "mon">> >>

\* C27, amended: as above when the definition does not set ignoreprimary;
\* when it does, the same operations in the same order without the P down.
C27_ManagedOpenCreatesVifInOrderUnlessIgnorePrimary ==
    LET P == local_wifi.interface
        device(op) == op[1] \notin {"clear_rfkill", "nm_device_set_managed"}
    IN /\ (/\ open.pc = "connect" /\ open.first_mode = "managed" /\ open.vif = ""
            /\ Len(P) + 3 < IFNAMSIZ
            /\ ~\E i \in open.ifaces : i.samemac /\ i.mode = "monitor") =>
               local_wifi.cap_interface = P \o "mon"
       /\ (/\ open.pc = "returned" /\ open.ret = 1
            /\ open.first_mode = "managed" /\ open.vif = ""
            /\ open.path = "vif_created"
            /\ local_wifi.cap_interface = P \o "mon") =>
               /\ local_wifi.pd # NULL
               /\ local_wifi.mac80211_handle # NULL
               /\ SelectSeq(open.ops, device) =
                     << <<"mac80211_create_monitor_vif", P, P \o "mon">> >>
                     \o (IF open.ignoreprimary THEN <<>>
                         ELSE << <<"ifconfig_interface_down", P>> >>)
                     \o << <<"ifconfig_interface_up", P \o "mon">>,
                           <<"populate_chanlist", P \o "mon">>,
                           <<"pcap_open_live", P \o "mon">> >>

\* C27 witness: wlan0, managed, has been opened through the new vif wlan0mon
\* with the parent brought down.
C27_Witness ==
    /\ open.pc = "returned" /\ open.ret = 1
    /\ open.first_mode = "managed" /\ open.vif = "" /\ ~open.ignoreprimary
    /\ open.path = "vif_created"
    /\ local_wifi.interface = ShortIf
    /\ local_wifi.cap_interface = "wlan0mon"
    /\ <<"ifconfig_interface_down", ShortIf>> \in { open.ops[i] : i \in 1..Len(open.ops) }


\* C28: the bring-up step brings the parent down exactly when cap_interface
\* differs from interface and ignoreprimary is not set, and then before it
\* brings the capture interface up; when the down fails the up is not
\* attempted; when either fails open returns -1, and neither the channel
\* list nor pcap_open_live is attempted.
C28_ParentDownBeforeCaptureUp ==
    /\ [][(open.pc = "bring_up" /\ open' # open) =>
            LET done == SubSeq(open'.ops, Len(open.ops) + 1, Len(open'.ops))
                down == <<"ifconfig_interface_down", local_wifi.interface>>
                up == <<"ifconfig_interface_up", local_wifi.cap_interface>>
                godown == local_wifi.interface # local_wifi.cap_interface
                            /\ ~open.ignoreprimary
            IN /\ SubSeq(open'.ops, 1, Len(open.ops)) = open.ops
               /\ godown => done \in {<<down>>, <<down, up>>}
               /\ ~godown => done = <<up>>
               /\ done = <<down>> <=>
                     (open'.ret = -1 /\ open'.msg = "Could not bring down parent interface")
               /\ open'.ret = -1 =>
                     /\ open'.pc = "returned"
                     /\ open'.msg \in {"Could not bring down parent interface",
                                       "Could not bring up capture interface"}
               /\ open'.ret # -1 => (open'.ret = 0 /\ open'.pc = "list_chans")]_vars
    /\ [](open.msg \in {"Could not bring down parent interface",
                        "Could not bring up capture interface"} =>
            /\ open.pc = "returned" /\ open.ret = -1
            /\ \A i \in 1..Len(open.ops) :
                  open.ops[i][1] \notin {"populate_chanlist", "pcap_open_live"}
            /\ open.backends = <<>>
            /\ local_wifi.pd = NULL)

\* C28 witness: with ignoreprimary set and a vif in use, the capture
\* interface could not be brought up; the parent was left alone.
C28_Witness ==
    /\ open.msg = "Could not bring up capture interface"
    /\ open.ignoreprimary
    /\ open.path = "vif_created"
    /\ local_wifi.interface # local_wifi.cap_interface
    /\ \A i \in 1..Len(open.ops) : open.ops[i][1] # "ifconfig_interface_down"


\* C29: when the interface is not in monitor mode, no vif= flag is given and
\* no interface with the same hardware address, another name and monitor mode
\* exists: with strlen(interface) + 3 < IFNAMSIZ the name chosen is
\* <interface>mon (and the name choice fails only on that name's mode);
\* otherwise it is kismonN for the smallest N in 0..99 with no interface
\* kismonN, and open fails when there is no such N.
C29_DerivedNameRule ==
    LET P == local_wifi.interface
        chosen == open.pc = "connect"
        refused == /\ open.pc = "returned"
                   /\ open.msg \in {"could not find a kismonX within 100 tries",
                                    "A monitor vif already exists but isn't in monitor mode"}
        free == (0..99) \ open.kismon
    IN (/\ chosen \/ refused
        /\ open.first_mode # "monitor" /\ open.vif = ""
        /\ ~\E i \in open.ifaces : i.name # P /\ i.samemac /\ i.mode = "monitor") =>
           IF Len(P) + 3 < IFNAMSIZ
           THEN /\ chosen => local_wifi.cap_interface = P \o "mon"
                /\ refused =>
                      open.msg = "A monitor vif already exists but isn't in monitor mode"
           ELSE IF free = {}
           THEN /\ refused /\ open.ret = -1
                /\ open.msg = "could not find a kismonX within 100 tries"
           ELSE /\ chosen
                /\ local_wifi.cap_interface =
                      "kismon" \o FormatIfnum(CHOOSE n \in free : \A m \in free : n <= m)

\* C29 witness: the interface whose name with "mon" just does not fit, with
\* kismon0 existing, has been given kismon1.
C29_Witness ==
    /\ open.pc = "connect"
    /\ local_wifi.interface = EdgeIf
    /\ Len(EdgeIf) + 3 = IFNAMSIZ
    /\ open.vif = ""
    /\ open.kismon = {0}
    /\ local_wifi.cap_interface = "kismon1"

\* C30: for an interface not in monitor mode the capture name is the vif=
\* flag's when there is one; without the flag, the name of an interface
\* with the same hardware address, another name and monitor mode when there
\* is one; else the derived name (<interface>mon or a free kismonN); and the
\* open fails when <interface>mon is the derived name and that interface
\* exists in another mode.
C30_NamePrecedence ==
    LET P == local_wifi.interface
        chosen == open.pc = "connect"
        refused == /\ open.pc = "returned"
                   /\ open.msg \in {"could not find a kismonX within 100 tries",
                                    "A monitor vif already exists but isn't in monitor mode"}
        siblings == { i.name : i \in { j \in open.ifaces :
                                          j.name # P /\ j.samemac /\ j.mode = "monitor" } }
    IN ((chosen \/ refused) /\ open.first_mode # "monitor") =>
           IF open.vif # ""
           THEN chosen /\ local_wifi.cap_interface = open.vif
           ELSE IF siblings # {}
           THEN chosen /\ local_wifi.cap_interface \in siblings
           ELSE IF Len(P) + 3 < IFNAMSIZ
           THEN IF \E i \in open.ifaces : i.name = P \o "mon" /\ i.mode # "monitor"
                THEN /\ refused /\ open.ret = -1
                     /\ open.msg = "A monitor vif already exists but isn't in monitor mode"
                     /\ local_wifi.cap_interface = NULL
                ELSE chosen /\ local_wifi.cap_interface = P \o "mon"
           ELSE /\ chosen => \E n \in (0..99) \ open.kismon :
                                local_wifi.cap_interface = "kismon" \o FormatIfnum(n)
                /\ refused => open.msg = "could not find a kismonX within 100 tries"

\* C30 witness: the vif= flag's name has been taken although a monitor
\* sibling with the interface's hardware address exists.
C30_Witness ==
    /\ open.pc = "connect"
    /\ open.first_mode = "managed"
    /\ open.vif = "mon7"
    /\ local_wifi.cap_interface = "mon7"
    /\ [name |-> "wlan9", samemac |-> TRUE, mode |-> "monitor"] \in open.ifaces

\* C31: the capture thread writes no field of local_wifi: every step that
\* changes the capture thread's record (its start, a packet delivered, a
\* send, a wake-up, the return of pcap_loop, the end of the thread) leaves
\* local_wifi as it was, and the only fields the thread has read are pd,
\* datalink_type and cap_interface (never mac80211_handle, use_mac80211 or
\* seq_channel_failure).
C31_CaptureThreadWritesNothing ==
    /\ [](cap.reads \subseteq {"pd", "datalink_type", "cap_interface"})
    /\ [][cap' # cap => local_wifi' = local_wifi]_vars

\* the thread has run to its end, through a send error, and has read all
\* three fields; the capture handle is still the one the open stored
C31_Witness ==
    /\ cap.pc = "finished"
    /\ cap.sendErrors > 0
    /\ Len(cap.sent) > 0
    /\ cap.reads = {"pd", "datalink_type", "cap_interface"}
    /\ local_wifi.pd = "pcap"
    /\ local_wifi.datalink_type = DLT_IEEE802_11_RADIO

\* C32: while the capture thread is running, no step of the main thread (a
\* channel translation, a channel control call on a hop tick or on a
\* configure command, a probe, the return of the event loop, the teardown)
\* changes a field of local_wifi other than seq_channel_failure, wherever
\* the capture thread is at that moment.
C32_MainThreadWritesOnlyFailureCount ==
    [][(cap.pc \notin {"idle", "finished"} /\ cap' = cap)
         => [local_wifi' EXCEPT !.seq_channel_failure = 0]
                = [local_wifi EXCEPT !.seq_channel_failure = 0]]_vars

\* the capture thread waits for the ring buffer inside pcap_dispatch_cb; a
\* probe was served while it ran, and the last channel control call, a
\* configure command that set the channel, came after the thread's start
C32_Witness ==
    /\ cap.pc = "wait_ringbuffer"
    /\ probe.calls = 1 /\ probe.capturing /\ probe.ret = 1
    /\ lastCall.calls = 1 /\ lastCall.seqno # 0 /\ lastCall.r >= 0
    /\ lastCall.privchan # <<>>
    /\ local_wifi.seq_channel_failure = 0

\* C33: whenever the channel controller has issued a netlink channel
\* operation (mac80211_set_channel_cache or mac80211_set_frequency_cache),
\* the handle it passed is a netlink session, not NULL; so after an open in
\* which mac80211_connect failed, and after one that released the session
\* behind a legacy set-mode.
C33_NetlinkOpHasSession ==
    \A i \in 1..Len(lastCall.ops) :
        lastCall.ops[i].fn \in {"mac80211_set_channel_cache", "mac80211_set_frequency_cache"}
            => lastCall.ops[i].handle # NULL

\* C34: the send loop of pcap_dispatch_cb ends for every packet: a send that
\* returns "ok" leaves the callback, and so does a send that returns
\* "error": after it the callback has returned to pcap_loop, so that no
\* further send of that packet is attempted and the error and the spindown
\* are issued once for it.  (A send that finds the buffer full waits.)
C34_SendLoopEndsOnOkAndOnError ==
    [][cap.pc = "dispatch" /\ cap' # cap /\ cap'.pc # "wait_ringbuffer"
         => cap'.pc = "pcap_loop"]_vars

\* C35: a probe leaves every field of local_wifi as it was; the only adapter
\* operations it issues are the two channel-list reads (no mode set, no vif
\* creation, no rfkill clear, no interface up or down), and its result is
\* never negative, whatever the backends return.
C35_ProbeReadsOnly ==
    /\ [](probe.calls = 1 =>
            /\ probe.ret >= 0
            /\ \A i \in 1..Len(probe.backends) :
                   probe.backends[i].fn \in {"mac80211_get_chanlist", "iwconfig_get_chanlist"})
    /\ [][probe' # probe => local_wifi' = local_wifi]_vars

\* a probe served after a successful open, while the capture thread ran:
\* both backends failed, the result is 1 with an empty list, and local_wifi
\* holds what the open stored
C35_Witness ==
    /\ probe.calls = 1 /\ probe.capturing
    /\ probe.definition = ShortIf
    /\ Len(probe.backends) = 2 /\ probe.backends[2].sz < 0
    /\ probe.ret = 1 /\ probe.chanlist_sz = 0
    /\ local_wifi.pd = "pcap" /\ local_wifi.cap_interface = ShortIf
====
